---- MODULE Spec2Model ----
(***************************************************************************)
(* Definition-resolution engine of metaobject-library (metabridge):        *)
(* dependency graph, topological sort, dependency-ordered selection,       *)
(* conflict detection, the interactive / policy resolution drivers and     *)
(* the import runs that are built from them.                               *)
(*                                                                         *)
(* Strings that the code splits or joins on "." (definition identities)    *)
(* are sequences of tokens: "product.custom.size" is                       *)
(* <<"product", "custom", "size">> and a template literal `${a}.${b}` is   *)
(* the concatenation a \o b.                                               *)
(***************************************************************************)
EXTENDS Integers, Sequences, FiniteSets, TLC

VARIABLES
    graph,        \* topologicalSort / sortByDependencyOrder: the DependencyGraph argument
    call,         \* which function of the sorter has been called ("none" before the call)
    args,         \* sortByDependencyOrder: the definitions argument
    ret,          \* the value returned (sorted) or the error thrown (error)
    manifest,     \* runImport: the manifest read from the resolved source
    options,      \* runImport: the ImportOptions of the command line
    target,       \* the definitions of the target store seen by the existence queries so far
    pc,           \* runImport: the step the run is at
    sorted,       \* runImport: sortByDependencyOrder(selection.selected, manifest)
    contexts,     \* runImport: the ReviewContext array
    idx,          \* the loop position (1-based) of the loop the run is in
    decisions,    \* Map<string, DefinitionAction>
    applyToAll,   \* reviewAllDefinitions: the apply-to-all action, NoAction for null
    prompted,     \* the operator's last answer to the action menu, per identity it was shown for
    results,      \* performImport: ImportResult[]
    mutations,    \* identities for which a create mutation was sent to the target, in order
    summary,      \* performImport: the ImportSummary counts, NoSummary before
    outcome,      \* how the run ended ("running" before)
    exitCode,     \* process.exitCode: 0 until process.exit(1)
    existingMetaobjects,  \* manifest-order import: the Set checkExistingMetaobjects returns
    skipAll,      \* manifest-order import: performImport's skipAll
    continueAll,  \* manifest-order import: performImport's continueAll
    fetchCall,    \* fetchRepository: the options of the call and the cache state it met
    cache,        \* fetchRepository: the cached clone, [cached, age]
    gitOps,       \* fetchRepository: the file-system and git operations attempted, in order
    fetchPc,      \* fetchRepository: position of the call
    fetchResult   \* fetchRepository: what the promise settles to

sortVars == <<graph, call, args, ret>>

importVars == <<manifest, options, target, pc, sorted, contexts, idx, decisions, applyToAll,
                prompted, results, mutations, summary, outcome, exitCode>>

legacyVars == <<existingMetaobjects, skipAll, continueAll>>

fetchVars == <<fetchCall, cache, gitOps, fetchPc, fetchResult>>

vars == <<graph, call, args, ret, manifest, options, target, pc, sorted, contexts, idx, decisions,
          applyToAll, prompted, results, mutations, summary, outcome, exitCode,
          existingMetaobjects, skipAll, continueAll,
          fetchCall, cache, gitOps, fetchPc, fetchResult>>

----------------------------------------------------------------------------
(* Bounds *)

\* longest dependency list of one graph node
MaxDeps == 2

\* longest dependency list of one entry of an imported manifest
MaxManifestDeps == 1

\* longest context array handed to the resolution drivers
MaxContexts == 3

\* the --type lists drawn have at most this many names
MaxTypes == 2

\* oldest cache a fetch meets, in seconds
MaxAge == 4

\* longest time to live of the cache a fetch is called with, in seconds
MaxTtl == 3

----------------------------------------------------------------------------
(* Generic helpers *)

Range(s) == {s[k] : k \in DOMAIN s}

Last(s) == s[Len(s)]

\* first position of x in s, 0 when absent (Array.prototype.indexOf + 1)
IndexOf(s, x) == IF x \in Range(s) THEN CHOOSE k \in 1..Len(s) : s[k] = x /\ \A j \in 1..(k - 1) : s[j] # x ELSE 0

\* sequences over S without repetition, at most n long
DistinctSeqs(S, n) ==
    {s \in UNION {[1..m -> S] : m \in 0..n} : \A a, b \in DOMAIN s : a # b => s[a] # s[b]}

----------------------------------------------------------------------------
(* Identities and manifest entries *)

\* the identities graphs are drawn over (one token each), in manifest order
IdOrder == <<(<<"A">>), (<<"B">>), (<<"C">>)>>

Ids == Range(IdOrder)

\* a metaobject entry of the manifest for a one-token type
MetaobjectEntry(type, category) == [type |-> type, category |-> category]

\* a metafield entry of the manifest
MetafieldEntry(resource, namespace, key, category) ==
    [resource |-> resource, namespace |-> namespace, key |-> key, category |-> category]

isMetaobjectEntry(entry) == "type" \in DOMAIN entry /\ ~("resource" \in DOMAIN entry)

isMetafieldEntry(entry) ==
    "resource" \in DOMAIN entry /\ "namespace" \in DOMAIN entry /\ "key" \in DOMAIN entry

getDefinitionId(entry) ==
    IF isMetaobjectEntry(entry) THEN entry.type
    ELSE entry.resource \o entry.namespace \o entry.key

getDefinitionTypeName(entry) ==
    IF isMetaobjectEntry(entry) THEN entry.type
    ELSE entry.namespace \o entry.key

----------------------------------------------------------------------------
(* Dependency graph: keys in Object.keys order, deps[k] the edge list of k *)

\* graph[node] is truthy: the node is a key of the graph object
InGraph(g, node) == node \in Range(g.keys)

\* graph[node] || []
DepsOf(g, node) == IF InGraph(g, node) THEN g.deps[node] ELSE <<>>

KeyOrders == {SelectSeq(IdOrder, LAMBDA x : x \in K) : K \in SUBSET Ids}

Graphs ==
    UNION {{[keys |-> ks, deps |-> d] : d \in [Range(ks) -> DistinctSeqs(Ids, MaxDeps)]} :
              ks \in KeyOrders}

\* the edges between keys of g that lie inside the identity set S
EdgesWithin(g, S) ==
    {<<u, v>> \in S \X S : InGraph(g, u) /\ v \in Range(g.deps[u])}

\* v is reachable from u by one or more edges of E (at most n further steps)
RECURSIVE Reaches(_, _, _, _)
Reaches(E, u, v, n) ==
    \/ <<u, v>> \in E
    \/ n > 0 /\ \E w \in {e[2] : e \in {f \in E : f[1] = u}} : Reaches(E, w, v, n - 1)

HasCycleWithin(g, S) ==
    LET E == EdgesWithin(g, S) IN \E u \in S : Reaches(E, u, u, Cardinality(S))

\* cycles can only run through keys: an edge to an absent identity ends there
HasCycle(g) == HasCycleWithin(g, Range(g.keys))

----------------------------------------------------------------------------
(* topologicalSort (dependency-resolver.ts) *)

NoError == <<>>

\* visit(node, path) with the closure state st = (sorted, visited, visiting);
\* st.error is the path of the thrown "Circular dependency detected" error
RECURSIVE visit(_, _, _, _)
RECURSIVE visitDependencies(_, _, _, _, _)
\* visit with sorted.push(node) moved in front of the loop over the dependencies
visit_PushBeforeDependencies(g, st, node, path) ==
    IF st.error # NoError THEN st
    ELSE IF node \in st.visiting THEN [st EXCEPT !.error = Append(path, node)]
    ELSE IF node \in st.visited THEN st
    ELSE LET entered == [st EXCEPT !.visiting = @ \cup {node}, !.sorted = Append(@, node)]
             after == visitDependencies(g, entered, DepsOf(g, node), 1, Append(path, node))
         IN  IF after.error # NoError THEN after
             ELSE [after EXCEPT !.visiting = @ \ {node}, !.visited = @ \cup {node}]

visit(g, st, node, path) ==
    IF st.error # NoError THEN st
    ELSE IF node \in st.visiting THEN [st EXCEPT !.error = Append(path, node)]
    ELSE IF node \in st.visited THEN st
    ELSE LET entered == [st EXCEPT !.visiting = @ \cup {node}]
             after == visitDependencies(g, entered, DepsOf(g, node), 1, Append(path, node))
         IN  IF after.error # NoError THEN after
             ELSE [after EXCEPT !.visiting = @ \ {node},
                                !.visited = @ \cup {node},
                                !.sorted = Append(@, node)]

\* for (const dep of dependencies) if (graph[dep]) visit(dep, currentPath)
visitDependencies(g, st, dependencies, k, currentPath) ==
    IF k > Len(dependencies) \/ st.error # NoError THEN st
    ELSE visitDependencies(g,
             IF InGraph(g, dependencies[k]) THEN visit(g, st, dependencies[k], currentPath) ELSE st,
             dependencies, k + 1, currentPath)

\* for (const node of Object.keys(graph)) if (!visited.has(node)) visit(node)
RECURSIVE visitAllNodes(_, _, _)
visitAllNodes(g, st, k) ==
    IF k > Len(g.keys) \/ st.error # NoError THEN st
    ELSE visitAllNodes(g,
             IF g.keys[k] \notin st.visited THEN visit(g, st, g.keys[k], <<>>) ELSE st,
             k + 1)

topologicalSort(g) ==
    LET final == visitAllNodes(g, [sorted |-> <<>>, visited |-> {}, visiting |-> {}, error |-> NoError], 1)
    IN  [sorted |-> IF final.error = NoError THEN final.sorted ELSE <<>>, error |-> final.error]

----------------------------------------------------------------------------
(* Graph building, import order and validation (dependency-resolver.ts) *)

\* a [dependencies] table with no entries
NoDependencies ==
    [metaobjects |-> <<>>, metafields |-> <<>>, standard_metafields |-> <<>>, standard_metaobjects |-> <<>>]

getAllDependencies(dependencies) ==
    dependencies.metaobjects \o dependencies.metafields
        \o dependencies.standard_metafields \o dependencies.standard_metaobjects

\* the keys of a Map given as the sequence of its set() calls
RECURSIVE MapKeys(_)
MapKeys(entries) ==
    IF entries = <<>> THEN <<>>
    ELSE LET before == MapKeys(SubSeq(entries, 1, Len(entries) - 1))
         IN  IF Last(entries).key \in Range(before) THEN before ELSE Append(before, Last(entries).key)

\* an object or Map written key by key: a later write replaces the value and
\* keeps the key's place
LastWritten(entries, key) ==
    entries[CHOOSE k \in DOMAIN entries :
                /\ entries[k].key = key
                /\ \A j \in DOMAIN entries : entries[j].key = key => j <= k]

\* metaobjects and metafields are the Maps from identity to definition
buildDependencyGraph(metaobjects, metafields) ==
    LET writes == metaobjects \o metafields IN
    [keys |-> MapKeys(writes),
     deps |-> [id \in Range(MapKeys(writes)) |-> getAllDependencies(LastWritten(writes, id).dependencies)]]

\* buildImportOrder with the error of topologicalSort passed on
buildImportOrder(metaobjects, metafields) ==
    LET order == topologicalSort(buildDependencyGraph(metaobjects, metafields)) IN
    [metaobjects |-> SelectSeq(order.sorted, LAMBDA id : id \in Range(MapKeys(metaobjects))),
     metafields |-> SelectSeq(order.sorted,
                              LAMBDA id : id \notin Range(MapKeys(metaobjects))
                                          /\ id \in Range(MapKeys(metafields))),
     error |-> order.error]

\* namespaces that start with one of STANDARD_METAFIELD_NAMESPACES
StandardMetafieldNamespaces ==
    {"descriptors", "facts", "reviews", "shopify--discovery--product_recommendation",
     "shopify--discovery--product_search_boost", "import_information"}

StandardMetaobjectTypes == {"product_review"}

classifyDependency(dependencyId) ==
    IF Len(dependencyId) > 1
    THEN (IF dependencyId[1] \in StandardMetafieldNamespaces
          THEN "standard_metafield" ELSE "custom_metafield")
    ELSE IF dependencyId \in {<<t>> : t \in StandardMetaobjectTypes}
         THEN "standard_metaobject" ELSE "custom_metaobject"

\* the entries of the returned Map: identity -> missing dependencies
findMissingDependencies(g, availableDefinitions) ==
    LET missingDeps(id) ==
            SelectSeq(g.deps[id],
                      LAMBDA dep : dep \notin availableDefinitions
                                   /\ classifyDependency(dep) \notin {"standard_metafield", "standard_metaobject"})
    IN  [id \in {k \in Range(g.keys) : missingDeps(k) # <<>>} |-> missingDeps(id)]

\* validateDependencyGraph with the missing dependencies pushed to errors
validateDependencyGraph_MissingIsError(g, availableDefinitions) ==
    LET missing == findMissingDependencies(g, availableDefinitions)
        errors == (IF topologicalSort(g).error # NoError THEN <<topologicalSort(g).error>> ELSE <<>>)
                  \o SelectSeq(g.keys, LAMBDA id : id \in DOMAIN missing)
    IN  [valid |-> Len(errors) = 0,
         errors |-> errors,
         warnings |-> <<>>]

validateDependencyGraph(g, availableDefinitions) ==
    LET errors == IF topologicalSort(g).error # NoError THEN <<topologicalSort(g).error>> ELSE <<>>
        missing == findMissingDependencies(g, availableDefinitions)
    IN  [valid |-> Len(errors) = 0,
         errors |-> errors,
         warnings |-> SelectSeq(g.keys, LAMBDA id : id \in DOMAIN missing)]

----------------------------------------------------------------------------
(* sortByDependencyOrder (definition-selector.ts) *)

\* new Map(definitions.map((def) => [getDefinitionId(def), def])).has(id)
definitionMapHas(definitions, id) == \E k \in DOMAIN definitions : getDefinitionId(definitions[k]) = id

\* .get(id): the last entry written under the key wins
definitionMapGet(definitions, id) ==
    definitions[CHOOSE k \in DOMAIN definitions :
                    /\ getDefinitionId(definitions[k]) = id
                    /\ \A j \in DOMAIN definitions : getDefinitionId(definitions[j]) = id => j <= k]

\* visit(def) with the closure state st = (sorted, visited)
RECURSIVE visitDefinition(_, _, _, _)
RECURSIVE visitDefinitionDeps(_, _, _, _, _)
visitDefinition(definitions, m, st, def) ==
    LET id == getDefinitionId(def) IN
    IF id \in st.visited THEN st
    ELSE LET marked == [st EXCEPT !.visited = @ \cup {id}]
             after == visitDefinitionDeps(definitions, m, marked,
                                          DepsOf(m.dependency_graph, id), 1)
         IN  [after EXCEPT !.sorted = Append(@, def)]

visitDefinitionDeps(definitions, m, st, deps, k) ==
    IF k > Len(deps) THEN st
    ELSE visitDefinitionDeps(definitions, m,
             IF definitionMapHas(definitions, deps[k]) /\ deps[k] \notin st.visited
             THEN visitDefinition(definitions, m, st, definitionMapGet(definitions, deps[k]))
             ELSE st,
             deps, k + 1)

\* definitions.forEach((def) => visit(def))
RECURSIVE visitAllDefinitions(_, _, _, _)
visitAllDefinitions(definitions, m, st, k) ==
    IF k > Len(definitions) THEN st
    ELSE visitAllDefinitions(definitions, m,
             visitDefinition(definitions, m, st, definitions[k]), k + 1)

sortByDependencyOrder(definitions, m) ==
    visitAllDefinitions(definitions, m, [sorted |-> <<>>, visited |-> {}], 1).sorted

----------------------------------------------------------------------------
(* Definition selection (definition-selector.ts) *)

\* options.x && options.x.length > 0 for the list-valued options
Given(list) == Len(list) > 0

\* options.pattern is NoPattern or the set of type names the glob matches
\* (minimatch with nocase decides membership; the glob is kept by its extension)
NoPattern == [undefined |-> TRUE]

allDefinitions(m) == m.metaobjects \o m.metafields

\* selectDefinitions with the type filter looking at the first requested type only
selectDefinitions_FirstTypeOnly(m, o) ==
    LET byType == IF Given(o.type)
                  THEN SelectSeq(allDefinitions(m), LAMBDA def : getDefinitionTypeName(def) = Head(o.type))
                  ELSE allDefinitions(m)
        byCategory == IF Given(o.category)
                      THEN SelectSeq(byType, LAMBDA def : def.category \in Range(o.category))
                      ELSE byType
        byPattern == IF o.pattern # NoPattern
                     THEN SelectSeq(byCategory, LAMBDA def : getDefinitionTypeName(def) \in o.pattern.matches)
                     ELSE byCategory
        notExcludedType == IF Given(o.excludeType)
                           THEN SelectSeq(byPattern, LAMBDA def : getDefinitionTypeName(def) \notin Range(o.excludeType))
                           ELSE byPattern
        selected == IF Given(o.excludeCategory)
                    THEN SelectSeq(notExcludedType, LAMBDA def : def.category \notin Range(o.excludeCategory))
                    ELSE notExcludedType
    IN  [selected |-> selected,
         total |-> Len(allDefinitions(m)),
         filtered |-> Len(allDefinitions(m)) - Len(selected)]

selectDefinitions(m, o) ==
    LET byType == IF Given(o.type)
                  THEN SelectSeq(allDefinitions(m), LAMBDA def : getDefinitionTypeName(def) \in Range(o.type))
                  ELSE allDefinitions(m)
        byCategory == IF Given(o.category)
                      THEN SelectSeq(byType, LAMBDA def : def.category \in Range(o.category))
                      ELSE byType
        byPattern == IF o.pattern # NoPattern
                     THEN SelectSeq(byCategory, LAMBDA def : getDefinitionTypeName(def) \in o.pattern.matches)
                     ELSE byCategory
        notExcludedType == IF Given(o.excludeType)
                           THEN SelectSeq(byPattern, LAMBDA def : getDefinitionTypeName(def) \notin Range(o.excludeType))
                           ELSE byPattern
        selected == IF Given(o.excludeCategory)
                    THEN SelectSeq(notExcludedType, LAMBDA def : def.category \notin Range(o.excludeCategory))
                    ELSE notExcludedType
    IN  [selected |-> selected,
         total |-> Len(allDefinitions(m)),
         filtered |-> Len(allDefinitions(m)) - Len(selected)]

Undefined == [undefined |-> TRUE]

\* findDefinitionById without the look at manifest.metafields
findDefinitionById_MetaobjectsOnly(id, m) ==
    LET mo == SelectSeq(m.metaobjects, LAMBDA e : e.type = id)
    IN  IF mo # <<>> THEN Head(mo) ELSE Undefined

\* manifest.metaobjects.find(type === id), else manifest.metafields.find(id === r.n.k)
findDefinitionById(id, m) ==
    LET mo == SelectSeq(m.metaobjects, LAMBDA e : e.type = id)
        mf == SelectSeq(m.metafields, LAMBDA e : e.resource \o e.namespace \o e.key = id)
    IN  IF mo # <<>> THEN Head(mo) ELSE IF mf # <<>> THEN Head(mf) ELSE Undefined

\* the while loop of resolveDependencies: toProcess is the queue, result the
\* insertion-ordered Set of entries, selectedIds the identities included so far
RECURSIVE processQueue(_, _, _, _)
RECURSIVE addDependencies(_, _, _, _, _, _)
processQueue(m, toProcess, result, selectedIds) ==
    IF toProcess = <<>> THEN result
    ELSE LET st == addDependencies(m, DepsOf(m.dependency_graph, getDefinitionId(Head(toProcess))), 1,
                                   Tail(toProcess), result, selectedIds)
         IN  processQueue(m, st.toProcess, st.result, st.selectedIds)

addDependencies(m, deps, k, toProcess, result, selectedIds) ==
    IF k > Len(deps) THEN [toProcess |-> toProcess, result |-> result, selectedIds |-> selectedIds]
    ELSE IF deps[k] \notin selectedIds /\ findDefinitionById(deps[k], m) # Undefined
         THEN addDependencies(m, deps, k + 1,
                              Append(toProcess, findDefinitionById(deps[k], m)),
                              IF findDefinitionById(deps[k], m) \in Range(result) THEN result
                              ELSE Append(result, findDefinitionById(deps[k], m)),
                              selectedIds \cup {deps[k]})
         ELSE addDependencies(m, deps, k + 1, toProcess, result, selectedIds)

\* resolveDependencies adding the direct dependencies of the selection only
resolveDependencies_DirectOnly(selected, m) ==
    selected \o SelectSeq(allDefinitions(m),
                          LAMBDA e : /\ getDefinitionId(e) \notin {getDefinitionId(selected[k]) : k \in DOMAIN selected}
                                     /\ \E k \in DOMAIN selected :
                                           getDefinitionId(e) \in Range(DepsOf(m.dependency_graph,
                                                                              getDefinitionId(selected[k]))))

resolveDependencies(selected, m) ==
    processQueue(m, selected, selected, {getDefinitionId(selected[k]) : k \in DOMAIN selected})

getDependenciesOnly(selected, m) ==
    SelectSeq(resolveDependencies(selected, m),
              LAMBDA def : getDefinitionId(def) \notin {getDefinitionId(selected[k]) : k \in DOMAIN selected})

----------------------------------------------------------------------------
(* Conflict detection (conflict-resolver.ts, checksum.ts) *)

\* existingData === null
Null == [null |-> TRUE]

\* JSON.stringify of a TOML definition: its sections in insertion order
JSONstringify(data) ==
    <<"{", "definition", data.definition>>
        \o (IF "fields" \in DOMAIN data THEN <<"fields", data.fields>> ELSE <<>>)
        \o (IF "dependencies" \in DOMAIN data THEN <<"dependencies", data.dependencies>> ELSE <<>>)
        \o <<"}">>

\* 'sha256:' + hex digest; the digest is taken to be collision-free
calculateChecksum(content) == <<"sha256:", content>>

\* detectConflict reporting matching checksums as a conflict
detectConflict_MatchIsConflict(sourceDefinition, existingDefinition) ==
    IF existingDefinition = Null
    THEN [hasConflict |-> FALSE, checksumMatch |-> FALSE]
    ELSE IF calculateChecksum(JSONstringify(sourceDefinition)) = calculateChecksum(JSONstringify(existingDefinition))
         THEN [hasConflict |-> TRUE, checksumMatch |-> TRUE]
         ELSE [hasConflict |-> TRUE, checksumMatch |-> FALSE]

detectConflict(sourceDefinition, existingDefinition) ==
    IF existingDefinition = Null
    THEN [hasConflict |-> FALSE, checksumMatch |-> FALSE]
    ELSE IF calculateChecksum(JSONstringify(sourceDefinition)) = calculateChecksum(JSONstringify(existingDefinition))
         THEN [hasConflict |-> FALSE, checksumMatch |-> TRUE]
         ELSE [hasConflict |-> TRUE, checksumMatch |-> FALSE]

\* the definition file of a manifest entry as readMetaobjectDefinition /
\* readMetafieldDefinition load it; name stands for the content that can differ
DefinitionData(entry, name) ==
    IF isMetaobjectEntry(entry)
    THEN [definition |-> [type |-> entry.type, name |-> name], fields |-> <<>>]
    ELSE [definition |-> [resource |-> entry.resource, namespace |-> entry.namespace,
                          key |-> entry.key, name |-> name]]

SourceData(entry) == DefinitionData(entry, "source copy")

\* a target-side definition of the same identity whose content is not the source's
DriftedData(entry) == DefinitionData(entry, "edited at target")

\* Object.keys(data.fields): fields is the list of [key, value] of the object
\* in insertion order, a value the list of its properties in insertion order
fieldKeys(data) == [k \in DOMAIN data.fields |-> data.fields[k].key]

\* data.fields[field]
fieldOf(data, field) == data.fields[CHOOSE k \in DOMAIN data.fields : data.fields[k].key = field].value

\* JSON.stringify of one field
JSONstringifyField(value) == <<"{">> \o value \o <<"}">>

\* compareDefinitions: the added, removed and modified items
compareDefinitions(source, existing) ==
    LET both == "fields" \in DOMAIN source /\ "fields" \in DOMAIN existing
        sourceFields == IF both THEN fieldKeys(source) ELSE <<>>
        existingFields == IF both THEN fieldKeys(existing) ELSE <<>>
        item(s) == [k \in DOMAIN s |-> <<"Field", s[k]>>]
    IN  [added |-> item(SelectSeq(sourceFields, LAMBDA f : f \notin Range(existingFields))),
         removed |-> item(SelectSeq(existingFields, LAMBDA f : f \notin Range(sourceFields))),
         modified |-> item(SelectSeq(sourceFields,
                                     LAMBDA f : /\ f \in Range(existingFields)
                                                /\ JSONstringifyField(fieldOf(source, f))
                                                      # JSONstringifyField(fieldOf(existing, f))))
                      \o (IF source.definition # existing.definition
                          THEN <<"Definition properties">> ELSE <<>>)]

\* formatDiff: the lines shown, or the one line 'No differences found'
formatDiff(diff) ==
    LET lines == (IF diff.added # <<>> THEN <<"Added:">> \o diff.added ELSE <<>>)
                 \o (IF diff.removed # <<>> THEN <<"Removed:">> \o diff.removed ELSE <<>>)
                 \o (IF diff.modified # <<>> THEN <<"Modified:">> \o diff.modified ELSE <<>>)
    IN  IF lines = <<>> THEN <<"No differences found">> ELSE lines

----------------------------------------------------------------------------
(* Resolution drivers and the apply pass (interactive-import.ts, import.ts) *)

\* applyToAll === null, decisions.get(id) === undefined
NoAction == "none"

NoSummary == [total |-> 0, successful |-> 0, failed |-> 0, skipped |-> 0, shown |-> FALSE]

Strategies == {"prompt", "skip", "overwrite", "abort"}

ContextId(context) == getDefinitionId(context.definition)

\* Map.get(id)
DecisionOf(map, id) == IF id \in DOMAIN map THEN map[id] ELSE NoAction

\* Map.set(id, action)
DecisionSet(map, id, action) == [k \in DOMAIN map \cup {id} |-> IF k = id THEN action ELSE map[k]]

\* the values of the action menu of reviewDefinition
getAvailableActions(hasConflict, checksumMatch) ==
    IF checksumMatch THEN {"skip", "compare", "skip-all", "quit"}
    ELSE IF hasConflict THEN {"overwrite", "skip", "compare", "apply-all", "skip-all", "quit"}
    ELSE {"import", "skip", "compare", "apply-all", "skip-all", "quit"}

\* reviewDefinition with skip-all returned as a decision for one definition only
reviewResult_SkipAllForOneOnly(context, answer) ==
    LET conflict == detectConflict(context.sourceData, context.existingData) IN
    IF answer = "apply-all"
    THEN [action |-> IF conflict.hasConflict THEN "overwrite" ELSE "import", applyToAll |-> TRUE]
    ELSE IF answer = "skip-all"
    THEN [action |-> "skip", applyToAll |-> FALSE]
    ELSE [action |-> answer, applyToAll |-> FALSE]

\* the ReviewResult of reviewDefinition for a menu answer other than compare
reviewResult(context, answer) ==
    LET conflict == detectConflict(context.sourceData, context.existingData) IN
    IF answer \in {"apply-all", "skip-all"}
    THEN [action |-> IF answer = "apply-all"
                     THEN (IF conflict.hasConflict THEN "overwrite" ELSE "import")
                     ELSE "skip",
          applyToAll |-> TRUE]
    ELSE [action |-> answer, applyToAll |-> FALSE]

shouldBeInteractive(o) ==
    /\ ~o.noInteractive
    /\ (o.interactive \/ ~o.all)
    /\ o.onConflict = "prompt"

\* ChooseDriver without the dry-run return: the driver is chosen on a dry run too
ChooseDriver_DryRunGoesOn ==
    /\ pc = "decide"
    /\ pc' = IF shouldBeInteractive(options) THEN "review" ELSE "automatic"
    /\ idx' = 1
    /\ UNCHANGED <<manifest, options, target, sorted, contexts, decisions, applyToAll, prompted,
                   results, mutations, summary, outcome, exitCode>>

\* runImport step 8-9: dry run returns, otherwise the driver is chosen
ChooseDriver ==
    /\ pc = "decide"
    /\ IF options.dryRun
       THEN /\ pc' = "done"
            /\ outcome' = "dry run"
            /\ UNCHANGED idx
       ELSE /\ pc' = IF shouldBeInteractive(options) THEN "review" ELSE "automatic"
            /\ idx' = 1
            /\ UNCHANGED outcome
    /\ UNCHANGED <<manifest, options, target, sorted, contexts, decisions, applyToAll, prompted,
                   results, mutations, summary, exitCode>>

\* reviewAllDefinitions, loop body with an apply-to-all decision in force
ReviewApplyToAll ==
    /\ pc = "review"
    /\ idx <= Len(contexts)
    /\ applyToAll # NoAction
    /\ decisions' = DecisionSet(decisions, ContextId(contexts[idx]), applyToAll)
    /\ idx' = idx + 1
    /\ UNCHANGED <<manifest, options, target, pc, sorted, contexts, applyToAll, prompted,
                   results, mutations, summary, outcome, exitCode>>

\* the loop body storing the menu answer itself in the decision map
ReviewPrompt_StoresMenuAnswer ==
    /\ pc = "review"
    /\ idx <= Len(contexts)
    /\ applyToAll = NoAction
    /\ LET context == contexts[idx]
           conflict == detectConflict(context.sourceData, context.existingData)
       IN  \E answer \in getAvailableActions(conflict.hasConflict, conflict.checksumMatch) :
             /\ prompted' = DecisionSet(prompted, ContextId(context), answer)
             /\ IF answer = "compare"
                THEN UNCHANGED <<pc, idx, decisions, applyToAll, outcome>>
                ELSE IF reviewResult(context, answer).action = "quit"
                THEN /\ pc' = "done"
                     /\ outcome' = "aborted by user"
                     /\ UNCHANGED <<idx, decisions, applyToAll>>
                ELSE /\ applyToAll' = IF reviewResult(context, answer).applyToAll
                                      THEN reviewResult(context, answer).action
                                      ELSE applyToAll
                     /\ decisions' = DecisionSet(decisions, ContextId(context), answer)
                     /\ idx' = idx + 1
                     /\ UNCHANGED <<pc, outcome>>
    /\ UNCHANGED <<manifest, options, target, sorted, contexts, results, mutations, summary, exitCode>>

\* reviewAllDefinitions, loop body without one: reviewDefinition shows the
\* menu and the operator answers; quit throws, runImport catches it and returns
ReviewPrompt ==
    /\ pc = "review"
    /\ idx <= Len(contexts)
    /\ applyToAll = NoAction
    /\ LET context == contexts[idx]
           conflict == detectConflict(context.sourceData, context.existingData)
       IN  \E answer \in getAvailableActions(conflict.hasConflict, conflict.checksumMatch) :
             /\ prompted' = DecisionSet(prompted, ContextId(context), answer)
             /\ IF answer = "compare"
                THEN UNCHANGED <<pc, idx, decisions, applyToAll, outcome>>
                ELSE IF reviewResult(context, answer).action = "quit"
                THEN /\ pc' = "done"
                     /\ outcome' = "aborted by user"
                     /\ UNCHANGED <<idx, decisions, applyToAll>>
                ELSE /\ applyToAll' = IF reviewResult(context, answer).applyToAll
                                      THEN reviewResult(context, answer).action
                                      ELSE applyToAll
                     /\ decisions' = DecisionSet(decisions, ContextId(context),
                                                 reviewResult(context, answer).action)
                     /\ idx' = idx + 1
                     /\ UNCHANGED <<pc, outcome>>
    /\ UNCHANGED <<manifest, options, target, sorted, contexts, results, mutations, summary, exitCode>>

\* reviewAllDefinitions returns the decision map
ReviewReturn ==
    /\ pc = "review"
    /\ idx > Len(contexts)
    /\ pc' = "import"
    /\ idx' = 1
    /\ UNCHANGED <<manifest, options, target, sorted, contexts, decisions, applyToAll, prompted,
                   results, mutations, summary, outcome, exitCode>>

\* the automatic mode with the overwrite and skip branches exchanged
automaticAction_StrategiesExchanged(context, strategy) ==
    LET conflict == detectConflict(context.sourceData, context.existingData) IN
    IF ~conflict.hasConflict \/ conflict.checksumMatch THEN "import"
    ELSE CASE strategy = "overwrite" -> "skip"
           [] strategy = "skip" -> "overwrite"
           [] strategy = "abort" -> "abort"
           [] OTHER -> "skip"

\* the action the automatic mode of runImport records for one context;
\* "abort" is the throw of `Conflict detected ... Aborting`
automaticAction(context, strategy) ==
    LET conflict == detectConflict(context.sourceData, context.existingData) IN
    IF ~conflict.hasConflict \/ conflict.checksumMatch THEN "import"
    ELSE CASE strategy = "overwrite" -> "overwrite"
           [] strategy = "skip" -> "skip"
           [] strategy = "abort" -> "abort"
           [] OTHER -> "skip"

\* the automatic loop with the abort branch recording a skip instead of throwing
AutomaticDecide_AbortFallsThrough ==
    /\ pc = "automatic"
    /\ idx <= Len(contexts)
    /\ decisions' = DecisionSet(decisions, ContextId(contexts[idx]),
                                IF automaticAction(contexts[idx], options.onConflict) = "abort"
                                THEN "skip"
                                ELSE automaticAction(contexts[idx], options.onConflict))
    /\ idx' = idx + 1
    /\ UNCHANGED <<pc, outcome, exitCode>>
    /\ UNCHANGED <<manifest, options, target, sorted, contexts, applyToAll, prompted,
                   results, mutations, summary>>

\* automatic mode, one iteration of the loop over the contexts; the throw
\* leaves runImport and the command's catch calls process.exit(1)
AutomaticDecide ==
    /\ pc = "automatic"
    /\ idx <= Len(contexts)
    /\ IF automaticAction(contexts[idx], options.onConflict) = "abort"
       THEN /\ pc' = "done"
            /\ outcome' = "failed"
            /\ exitCode' = 1
            /\ UNCHANGED <<idx, decisions>>
       ELSE /\ decisions' = DecisionSet(decisions, ContextId(contexts[idx]),
                                        automaticAction(contexts[idx], options.onConflict))
            /\ idx' = idx + 1
            /\ UNCHANGED <<pc, outcome, exitCode>>
    /\ UNCHANGED <<manifest, options, target, sorted, contexts, applyToAll, prompted,
                   results, mutations, summary>>

AutomaticReturn ==
    /\ pc = "automatic"
    /\ idx > Len(contexts)
    /\ pc' = "import"
    /\ idx' = 1
    /\ UNCHANGED <<manifest, options, target, sorted, contexts, decisions, applyToAll, prompted,
                   results, mutations, summary, outcome, exitCode>>

\* what the target answers to a create mutation
Responses == {"created", "userErrors", "request throws"}

\* the identity importMetaobject / importMetafield report, read from the definition file
ResultDefinition(data) ==
    IF "type" \in DOMAIN data.definition THEN data.definition.type
    ELSE data.definition.resource \o data.definition.namespace \o data.definition.key

\* the ImportResult of importMetaobject / importMetafield
importResult(context, response) ==
    [definition |-> ResultDefinition(context.sourceData),
     type |-> IF isMetaobjectEntry(context.definition) THEN "metaobject" ELSE "metafield",
     status |-> IF response = "created" THEN "success" ELSE "failed",
     detail |-> IF response = "created" THEN "" ELSE "error message"]

skippedResult(context) ==
    [definition |-> ContextId(context),
     type |-> IF isMetaobjectEntry(context.definition) THEN "metaobject" ELSE "metafield",
     status |-> "skipped",
     detail |-> "Skipped by user"]

\* the loop of performImport with a thrown request leaving no result behind
ImportDefinition_ThrowDropsResult ==
    /\ pc = "import"
    /\ idx <= Len(contexts)
    /\ IF DecisionOf(decisions, ContextId(contexts[idx])) = "skip"
       THEN /\ results' = Append(results, skippedResult(contexts[idx]))
            /\ UNCHANGED mutations
       ELSE \E response \in Responses :
              /\ mutations' = Append(mutations, ContextId(contexts[idx]))
              /\ results' = IF response = "request throws" THEN results
                            ELSE Append(results, importResult(contexts[idx], response))
    /\ idx' = idx + 1
    /\ UNCHANGED <<manifest, options, target, pc, sorted, contexts, decisions, applyToAll, prompted,
                   summary, outcome, exitCode>>

\* performImport, one iteration of the loop over the contexts
ImportDefinition ==
    /\ pc = "import"
    /\ idx <= Len(contexts)
    /\ IF DecisionOf(decisions, ContextId(contexts[idx])) = "skip"
       THEN /\ results' = Append(results, skippedResult(contexts[idx]))
            /\ UNCHANGED mutations
       ELSE \E response \in Responses :
              /\ mutations' = Append(mutations, ContextId(contexts[idx]))
              /\ results' = Append(results, importResult(contexts[idx], response))
    /\ idx' = idx + 1
    /\ UNCHANGED <<manifest, options, target, pc, sorted, contexts, decisions, applyToAll, prompted,
                   summary, outcome, exitCode>>

CountStatus(rs, status) == Cardinality({k \in DOMAIN rs : rs[k].status = status})

\* performImport returns the summary and runImport shows it
ShowSummary ==
    /\ pc = "import"
    /\ idx > Len(contexts)
    /\ summary' = [total |-> Len(results),
                   successful |-> CountStatus(results, "success"),
                   failed |-> CountStatus(results, "failed"),
                   skipped |-> CountStatus(results, "skipped"),
                   shown |-> TRUE]
    /\ pc' = "done"
    /\ outcome' = "completed"
    /\ UNCHANGED <<manifest, options, target, sorted, contexts, idx, decisions, applyToAll, prompted,
                   results, mutations, exitCode>>

----------------------------------------------------------------------------
(* fetchRepository and the cache of the remote repository (remote-fetcher.ts) *)

NoCache == [cached |-> FALSE, age |-> 0]

\* a clone just written: no time has passed since
FreshCache == [cached |-> TRUE, age |-> 0]

FetchIdle ==
    /\ fetchCall = [force |-> FALSE, ttl |-> 0, cache |-> NoCache]
    /\ cache = NoCache
    /\ gitOps = <<>>
    /\ fetchPc = "idle"
    /\ fetchResult = "none"

\* fs.existsSync(cachePath/.git)
isRepoCached(c) == c.cached

\* getCacheAge returning null
NoAge == <<>>

\* seconds since the last fetch (or since the clone) as <<age>>, null without a cache
getCacheAge(c) == IF ~isRepoCached(c) THEN NoAge ELSE <<c.age>>

isCacheStale(c, ttl) == IF getCacheAge(c) = NoAge THEN TRUE ELSE getCacheAge(c)[1] > ttl

\* fetchRepository with the freshness check made before the look at force
FetchRepository_FreshBeforeForce ==
    /\ fetchPc = "fetchRepository"
    /\ IF isRepoCached(cache) /\ getCacheAge(cache) # NoAge /\ getCacheAge(cache)[1] <= fetchCall.ttl
       THEN /\ fetchPc' = "done"
            /\ fetchResult' = "cachePath"
       ELSE /\ fetchPc' = IF fetchCall.force \/ isRepoCached(cache)
                          THEN "updateRepository" ELSE "cloneRepository"
            /\ UNCHANGED fetchResult
    /\ UNCHANGED <<fetchCall, cache, gitOps>>

\* fetchRepository up to its return or its call of updateRepository / cloneRepository
FetchRepository ==
    /\ fetchPc = "fetchRepository"
    /\ IF fetchCall.force
       THEN /\ fetchPc' = "updateRepository"
            /\ UNCHANGED fetchResult
       ELSE IF isRepoCached(cache)
       THEN IF getCacheAge(cache) # NoAge /\ getCacheAge(cache)[1] <= fetchCall.ttl
            THEN /\ fetchPc' = "done"
                 /\ fetchResult' = "cachePath"
            ELSE /\ fetchPc' = "updateRepository"
                 /\ UNCHANGED fetchResult
       ELSE /\ fetchPc' = "cloneRepository"
            /\ UNCHANGED fetchResult
    /\ UNCHANGED <<fetchCall, cache, gitOps>>

\* the git commands of updateRepository, in order
UpdateCommands == <<"fetch", "reset", "clean">>

\* updateRepository with a failed update thrown to the caller instead of re-cloning
UpdateRepository_NoFallback ==
    /\ fetchPc = "updateRepository"
    /\ IF ~isRepoCached(cache)
       THEN /\ fetchPc' = "cloneRepository"
            /\ UNCHANGED <<cache, gitOps, fetchResult>>
       ELSE \E failedAt \in 0..Len(UpdateCommands) :
              IF failedAt = 0
              THEN /\ gitOps' = gitOps \o UpdateCommands
                   /\ cache' = FreshCache
                   /\ fetchPc' = "done"
                   /\ fetchResult' = "cachePath"
              ELSE /\ gitOps' = gitOps \o SubSeq(UpdateCommands, 1, failedAt)
                   /\ fetchPc' = "done"
                   /\ fetchResult' = "Failed to update repository"
                   /\ UNCHANGED cache
    /\ UNCHANGED fetchCall

\* updateRepository: without a cache it clones; otherwise fetch, reset and
\* clean run until one of them throws (failedAt, 0 for none), and a throw
\* falls back to cloneRepository
UpdateRepository ==
    /\ fetchPc = "updateRepository"
    /\ IF ~isRepoCached(cache)
       THEN /\ fetchPc' = "cloneRepository"
            /\ UNCHANGED <<cache, gitOps, fetchResult>>
       ELSE \E failedAt \in 0..Len(UpdateCommands) :
              IF failedAt = 0
              THEN /\ gitOps' = gitOps \o UpdateCommands
                   /\ cache' = FreshCache
                   /\ fetchPc' = "done"
                   /\ fetchResult' = "cachePath"
              ELSE /\ gitOps' = gitOps \o SubSeq(UpdateCommands, 1, failedAt)
                   /\ fetchPc' = "cloneRepository"
                   /\ UNCHANGED <<cache, fetchResult>>
    /\ UNCHANGED fetchCall

\* cloneRepository: an existing cache directory is removed, then git clone
\* runs; a failed clone is cleaned up and the error is thrown
CloneRepository ==
    /\ fetchPc = "cloneRepository"
    /\ \E cloned \in BOOLEAN :
          /\ gitOps' = gitOps \o (IF isRepoCached(cache) THEN <<"rm">> ELSE <<>>) \o <<"clone">>
          /\ cache' = IF cloned THEN FreshCache ELSE NoCache
          /\ fetchResult' = IF cloned THEN "cachePath" ELSE "Failed to clone repository"
    /\ fetchPc' = "done"
    /\ UNCHANGED fetchCall

\* the cache states a call can meet
CacheStates == {NoCache} \cup {[cached |-> TRUE, age |-> a] : a \in 0..MaxAge}

InitFetch ==
    /\ cache \in CacheStates
    /\ \E force \in BOOLEAN : \E ttl \in 0..MaxTtl :
          fetchCall = [force |-> force, ttl |-> ttl, cache |-> cache]
    /\ gitOps = <<>>
    /\ fetchPc = "fetchRepository"
    /\ fetchResult = "none"
    /\ manifest = [metaobjects |-> <<>>, metafields |-> <<>>,
                   dependency_graph |-> [keys |-> <<>>, deps |-> <<>>],
                   import_order |-> [metaobjects |-> <<>>, metafields |-> <<>>]]
    /\ options = [type |-> <<>>, category |-> <<>>, pattern |-> [undefined |-> TRUE], excludeType |-> <<>>,
                  excludeCategory |-> <<>>, all |-> FALSE, withDependencies |-> FALSE,
                  dependenciesOnly |-> FALSE, noDependencies |-> "undefined", interactive |-> FALSE,
                  noInteractive |-> FALSE, onConflict |-> "prompt", dryRun |-> FALSE]
    /\ pc = "fetcher"
    /\ target = <<>>
    /\ sorted = <<>>
    /\ contexts = <<>>
    /\ idx = 1
    /\ decisions = <<>>
    /\ applyToAll = "none"
    /\ prompted = <<>>
    /\ results = <<>>
    /\ mutations = <<>>
    /\ summary = [total |-> 0, successful |-> 0, failed |-> 0, skipped |-> 0, shown |-> FALSE]
    /\ outcome = "running"
    /\ exitCode = 0
    /\ existingMetaobjects = {}
    /\ skipAll = FALSE
    /\ continueAll = FALSE
    /\ graph = [keys |-> <<>>, deps |-> <<>>]
    /\ call = "none"
    /\ args = <<>>
    /\ ret = <<>>

NextFetch ==
    \/ (FetchRepository /\ UNCHANGED <<sortVars, importVars, legacyVars>>)
    \/ (UpdateRepository /\ UNCHANGED <<sortVars, importVars, legacyVars>>)
    \/ (CloneRepository /\ UNCHANGED <<sortVars, importVars, legacyVars>>)

SpecFetch == InitFetch /\ [][NextFetch]_vars

----------------------------------------------------------------------------
(* runImport, selection-based (import.ts lines 81-265) *)

Typeface == MetaobjectEntry(<<"typeface">>, "typography")

KeyFeatures == MetafieldEntry(<<"product">>, <<"custom">>, <<"key_features">>, "products")

ProductCard == MetaobjectEntry(<<"product_card">>, "products")

Author == MetaobjectEntry(<<"author">>, "content")

\* the manifests runs are drawn over: three entries, every dependency graph
\* between them whose edge lists are at most MaxManifestDeps long
ManifestEntries == <<Typeface, ProductCard, KeyFeatures>>

ManifestIds == {getDefinitionId(ManifestEntries[k]) : k \in DOMAIN ManifestEntries}

\* the [dependencies] table of a definition file that lists deps
DependenciesTable(deps) ==
    [NoDependencies EXCEPT !.metaobjects = SelectSeq(deps, LAMBDA id : Len(id) = 1),
                           !.metafields = SelectSeq(deps, LAMBDA id : Len(id) > 1)]

\* the Map of definitions updateManifest hands to the graph builder
DefinitionMap(entries, d) ==
    [k \in DOMAIN entries |->
        [key |-> getDefinitionId(entries[k]), dependencies |-> DependenciesTable(d[getDefinitionId(entries[k])])]]

\* the manifest updateManifest writes for the entries with dependency lists d;
\* buildImportOrder throws on a cycle, so a manifest with a cyclic graph is
\* one edited by hand: its import_order lists the entries in manifest order
ManifestOf(d) ==
    LET mos == SelectSeq(ManifestEntries, isMetaobjectEntry)
        mfs == SelectSeq(ManifestEntries, isMetafieldEntry)
        order == buildImportOrder(DefinitionMap(mos, d), DefinitionMap(mfs, d))
    IN  [metaobjects |-> mos,
         metafields |-> mfs,
         dependency_graph |-> buildDependencyGraph(DefinitionMap(mos, d), DefinitionMap(mfs, d)),
         import_order |-> IF order.error = NoError
                          THEN [metaobjects |-> order.metaobjects, metafields |-> order.metafields]
                          ELSE [metaobjects |-> [k \in DOMAIN mos |-> getDefinitionId(mos[k])],
                                metafields |-> [k \in DOMAIN mfs |-> getDefinitionId(mfs[k])]]]

ImportManifests ==
    {ManifestOf(d) : d \in [ManifestIds -> DistinctSeqs(ManifestIds, MaxManifestDeps)]}

NoOptions ==
    [type |-> <<>>, category |-> <<>>, pattern |-> NoPattern, excludeType |-> <<>>,
     excludeCategory |-> <<>>, all |-> FALSE, withDependencies |-> FALSE,
     dependenciesOnly |-> FALSE, noDependencies |-> "undefined", interactive |-> FALSE,
     noInteractive |-> FALSE, onConflict |-> "prompt", dryRun |-> FALSE]

\* the command lines runs are drawn over; commander stores --no-dependencies and
\* --no-interactive under the keys dependencies and interactive, so the keys
\* noDependencies and noInteractive stay undefined
DriverFlags ==
    {[all |-> TRUE, interactive |-> FALSE, onConflict |-> c] : c \in Strategies}
    \cup {[all |-> a, interactive |-> ~a, onConflict |-> c] : a \in BOOLEAN, c \in {"prompt", "skip"}}
    \cup {[all |-> TRUE, interactive |-> TRUE, onConflict |-> "prompt"]}

\* --with-dependencies is drawn with a --type filter only: without a filter
\* the selection is the whole manifest and its closure is the selection itself
SelectionFlags ==
    {[type |-> <<>>, withDependencies |-> FALSE]}
    \cup {[type |-> <<(<<"product_card">>)>>, withDependencies |-> w] : w \in BOOLEAN}

ImportOptionSets ==
    {[NoOptions EXCEPT !.type = s.type, !.all = f.all, !.withDependencies = s.withDependencies,
                       !.interactive = f.interactive, !.onConflict = f.onConflict, !.dryRun = dry] :
        s \in SelectionFlags, f \in DriverFlags, dry \in BOOLEAN}

\* selection.selected after the --all handling and the dependency handling
workingSet(m, o) ==
    LET selection == selectDefinitions(m, o).selected
        withAll == IF o.all /\ Len(selection) = 0 THEN allDefinitions(m) ELSE selection
    IN  IF o.withDependencies THEN resolveDependencies(withAll, m)
        ELSE IF o.dependenciesOnly THEN getDependenciesOnly(withAll, m)
        ELSE IF o.noDependencies = "false" THEN resolveDependencies(withAll, m)
        ELSE withAll

ImportIdle ==
    /\ target = <<>>
    /\ sorted = <<>>
    /\ contexts = <<>>
    /\ idx = 1
    /\ decisions = <<>>
    /\ applyToAll = NoAction
    /\ prompted = <<>>
    /\ results = <<>>
    /\ mutations = <<>>
    /\ summary = NoSummary
    /\ outcome = "running"
    /\ exitCode = 0
    /\ existingMetaobjects = {}
    /\ skipAll = FALSE
    /\ continueAll = FALSE

SortIdle ==
    /\ graph = [keys |-> <<>>, deps |-> <<>>]
    /\ call = "none"
    /\ args = <<>>
    /\ ret = [sorted |-> <<>>, error |-> NoError]

Init ==
    /\ manifest \in ImportManifests
    /\ options \in ImportOptionSets
    /\ pc = "select"
    /\ ImportIdle
    /\ FetchIdle
    /\ SortIdle

\* runImport steps 3-4: select, handle --all and the dependencies, return when
\* nothing is selected, sort by dependency order
SelectAndSort ==
    /\ pc = "select"
    /\ IF Len(workingSet(manifest, options)) = 0
       THEN /\ pc' = "done"
            /\ outcome' = "nothing selected"
            /\ UNCHANGED sorted
       ELSE /\ sorted' = sortByDependencyOrder(workingSet(manifest, options), manifest)
            /\ pc' = "load"
            /\ UNCHANGED outcome
    /\ UNCHANGED <<manifest, options, target, contexts, idx, decisions, applyToAll, prompted,
                   results, mutations, summary, exitCode>>

\* runImport step 7, one iteration: read the definition file and, for a
\* metaobject, ask the target whether the type exists; found is what the
\* target holds (Null when the type is absent or the request throws)
LoadDefinition ==
    /\ pc = "load"
    /\ idx <= Len(sorted)
    /\ LET entry == sorted[idx] IN
       IF isMetaobjectEntry(entry)
       THEN \E found \in {Null, SourceData(entry), DriftedData(entry)} :
              /\ target' = [k \in DOMAIN target \cup {getDefinitionId(entry)} |->
                               IF k = getDefinitionId(entry) THEN found ELSE target[k]]
              /\ contexts' = Append(contexts,
                                 [definition |-> entry,
                                  sourceData |-> SourceData(entry),
                                  existingData |-> IF found # Null THEN SourceData(entry) ELSE Null,
                                  index |-> idx - 1,
                                  total |-> Len(sorted)])
       ELSE /\ contexts' = Append(contexts,
                               [definition |-> entry,
                                sourceData |-> SourceData(entry),
                                existingData |-> Null,
                                index |-> idx - 1,
                                total |-> Len(sorted)])
            /\ UNCHANGED target
    /\ IF idx = Len(sorted)
       THEN pc' = "decide" /\ idx' = 1
       ELSE pc' = "load" /\ idx' = idx + 1
    /\ UNCHANGED <<manifest, options, sorted, decisions, applyToAll, prompted, results, mutations,
                   summary, outcome, exitCode>>

Next ==
    \/ (SelectAndSort /\ UNCHANGED <<sortVars, legacyVars, fetchVars>>)
    \/ (LoadDefinition /\ UNCHANGED <<sortVars, legacyVars, fetchVars>>)
    \/ (ChooseDriver /\ UNCHANGED <<sortVars, legacyVars, fetchVars>>)
    \/ (ReviewApplyToAll /\ UNCHANGED <<sortVars, legacyVars, fetchVars>>)
    \/ (ReviewPrompt /\ UNCHANGED <<sortVars, legacyVars, fetchVars>>)
    \/ (ReviewReturn /\ UNCHANGED <<sortVars, legacyVars, fetchVars>>)
    \/ (AutomaticDecide /\ UNCHANGED <<sortVars, legacyVars, fetchVars>>)
    \/ (AutomaticReturn /\ UNCHANGED <<sortVars, legacyVars, fetchVars>>)
    \/ (ImportDefinition /\ UNCHANGED <<sortVars, legacyVars, fetchVars>>)
    \/ (ShowSummary /\ UNCHANGED <<sortVars, legacyVars, fetchVars>>)

Spec == Init /\ [][Next]_vars

----------------------------------------------------------------------------
(* The resolution drivers on every context array (reviewAllDefinitions and *)
(* the automatic mode take the contexts as they are given)                 *)

DriverEntries == <<Typeface, KeyFeatures, ProductCard, Author>>

ReviewContextOf(entry, existing, k, n) ==
    [definition |-> entry, sourceData |-> SourceData(entry), existingData |-> existing,
     index |-> k - 1, total |-> n]

ExistingData(entry, state) ==
    CASE state = "absent" -> Null
      [] state = "identical" -> SourceData(entry)
      [] state = "different" -> DriftedData(entry)

DriverOptionSets ==
    {[NoOptions EXCEPT !.all = a, !.interactive = i, !.onConflict = c] :
        a \in BOOLEAN, i \in BOOLEAN, c \in Strategies}

InitDriver ==
    /\ manifest = [metaobjects |-> <<>>, metafields |-> <<>>,
                   dependency_graph |-> [keys |-> <<>>, deps |-> <<>>],
                   import_order |-> [metaobjects |-> <<>>, metafields |-> <<>>]]
    /\ options \in DriverOptionSets
    /\ pc = "decide"
    /\ target = <<>>
    /\ \E n \in 1..MaxContexts : \E e \in [1..n -> {"absent", "identical", "different"}] :
          /\ contexts = [k \in 1..n |->
                            ReviewContextOf(DriverEntries[k], ExistingData(DriverEntries[k], e[k]), k, n)]
          /\ sorted = [k \in 1..n |-> DriverEntries[k]]
    /\ idx = 1
    /\ decisions = <<>>
    /\ applyToAll = NoAction
    /\ prompted = <<>>
    /\ results = <<>>
    /\ mutations = <<>>
    /\ summary = NoSummary
    /\ outcome = "running"
    /\ exitCode = 0
    /\ existingMetaobjects = {}
    /\ skipAll = FALSE
    /\ continueAll = FALSE
    /\ FetchIdle
    /\ SortIdle

NextDriver ==
    \/ (ChooseDriver /\ UNCHANGED <<sortVars, legacyVars, fetchVars>>)
    \/ (ReviewApplyToAll /\ UNCHANGED <<sortVars, legacyVars, fetchVars>>)
    \/ (ReviewPrompt /\ UNCHANGED <<sortVars, legacyVars, fetchVars>>)
    \/ (ReviewReturn /\ UNCHANGED <<sortVars, legacyVars, fetchVars>>)
    \/ (AutomaticDecide /\ UNCHANGED <<sortVars, legacyVars, fetchVars>>)
    \/ (AutomaticReturn /\ UNCHANGED <<sortVars, legacyVars, fetchVars>>)
    \/ (ImportDefinition /\ UNCHANGED <<sortVars, legacyVars, fetchVars>>)
    \/ (ShowSummary /\ UNCHANGED <<sortVars, legacyVars, fetchVars>>)

SpecDriver == InitDriver /\ [][NextDriver]_vars

----------------------------------------------------------------------------
(* The sorter called on every graph and every selection of its entries *)

\* the manifest whose dependency_graph is g, every key a metaobject entry
ManifestOfGraph(g) ==
    [metaobjects |-> [k \in DOMAIN g.keys |-> MetaobjectEntry(g.keys[k], "general")],
     metafields |-> <<>>,
     dependency_graph |-> g,
     import_order |-> [metaobjects |-> <<>>, metafields |-> <<>>]]

\* the selections handed to sortByDependencyOrder: entries in manifest order
Selections(g) ==
    {SelectSeq(ManifestOfGraph(g).metaobjects, LAMBDA e : getDefinitionId(e) \in K) :
        K \in SUBSET Range(g.keys)}

InitSort ==
    /\ graph \in Graphs
    /\ call = "none"
    /\ args = <<>>
    /\ ret = [sorted |-> <<>>, error |-> NoError]
    /\ manifest = ManifestOfGraph(graph)
    /\ options = NoOptions
    /\ pc = "sorter"
    /\ ImportIdle
    /\ FetchIdle

CallTopologicalSort ==
    /\ call = "none"
    /\ call' = "topologicalSort"
    /\ ret' = topologicalSort(graph)
    /\ UNCHANGED <<graph, args>>
    /\ UNCHANGED <<importVars, legacyVars, fetchVars>>

CallSortByDependencyOrder ==
    /\ call = "none"
    /\ \E definitions \in Selections(graph) :
          /\ args' = definitions
          /\ ret' = [sorted |-> [k \in DOMAIN sortByDependencyOrder(definitions, ManifestOfGraph(graph)) |->
                                   getDefinitionId(sortByDependencyOrder(definitions, ManifestOfGraph(graph))[k])],
                     error |-> NoError]
    /\ call' = "sortByDependencyOrder"
    /\ UNCHANGED graph
    /\ UNCHANGED <<importVars, legacyVars, fetchVars>>

NextSort == CallTopologicalSort \/ CallSortByDependencyOrder

SpecSort == InitSort /\ [][NextSort]_vars

----------------------------------------------------------------------------
(* runImport, manifest-order (import.ts lines 590-667) and its performImport *)
(* (lines 756-843): the definitions are applied in manifest.import_order    *)

\* the keys of the metaobjects Map loadDefinitions fills
LoadedMetaobjects(m) == {m.metaobjects[k].type : k \in DOMAIN m.metaobjects}

\* the keys of the metafields Map loadDefinitions fills
LoadedMetafields(m) ==
    {m.metafields[k].resource \o m.metafields[k].namespace \o m.metafields[k].key : k \in DOMAIN m.metafields}

\* what promptForConflict resolves to
ConflictAnswers == {"skip", "overwrite", "skip_all", "continue_all", "abort"}

\* the ImportResult importMetaobject / importMetafield return for definition id
legacyImportResult(id, type, response) ==
    [definition |-> id,
     type |-> type,
     status |-> IF response = "created" THEN "success" ELSE "failed",
     detail |-> IF response = "created" THEN "" ELSE "error message"]

legacySkippedResult(id, reason) ==
    [definition |-> id, type |-> "metaobject", status |-> "skipped", detail |-> reason]

\* step 5: validateDependencyGraph; an invalid graph ends the process with code 1
LegacyValidate ==
    /\ pc = "legacy validate"
    /\ IF validateDependencyGraph(manifest.dependency_graph,
                                  LoadedMetaobjects(manifest) \cup LoadedMetafields(manifest)).valid
       THEN /\ pc' = "legacy check"
            /\ UNCHANGED <<outcome, exitCode>>
       ELSE /\ pc' = "done"
            /\ outcome' = "failed"
            /\ exitCode' = 1
    /\ UNCHANGED <<manifest, options, target, sorted, contexts, idx, decisions, applyToAll, prompted,
                   results, mutations, summary, legacyVars>>

\* steps 7-8: checkExistingMetaobjects asks the target for every loaded type;
\* a dry run shows its summary and returns
LegacyCheckExisting ==
    /\ pc = "legacy check"
    /\ existingMetaobjects' \in SUBSET LoadedMetaobjects(manifest)
    /\ IF options.dryRun
       THEN /\ pc' = "done"
            /\ outcome' = "dry run"
       ELSE /\ pc' = "legacy metaobjects"
            /\ UNCHANGED outcome
    /\ idx' = 1
    /\ UNCHANGED <<manifest, options, target, sorted, contexts, decisions, applyToAll, prompted,
                   results, mutations, summary, exitCode, skipAll, continueAll>>

\* performImport, one iteration of the loop over import_order.metaobjects;
\* 'abort' breaks out of this loop only
LegacyImportMetaobject ==
    /\ pc = "legacy metaobjects"
    /\ idx <= Len(manifest.import_order.metaobjects)
    /\ LET type == manifest.import_order.metaobjects[idx]
           asks == type \in existingMetaobjects /\ ~skipAll /\ ~continueAll
       IN  IF type \notin LoadedMetaobjects(manifest)
           THEN /\ idx' = idx + 1
                /\ UNCHANGED <<pc, prompted, results, mutations, skipAll, continueAll>>
           ELSE \E action \in (IF asks THEN ConflictAnswers ELSE {NoAction}) :
                  /\ prompted' = IF asks THEN DecisionSet(prompted, type, action) ELSE prompted
                  /\ skipAll' = (skipAll \/ action = "skip_all")
                  /\ continueAll' = (continueAll \/ action = "continue_all")
                  /\ CASE action = "abort" ->
                            /\ pc' = "legacy metafields"
                            /\ idx' = 1
                            /\ UNCHANGED <<results, mutations>>
                       [] action = "skip" ->
                            /\ results' = Append(results,
                                   legacySkippedResult(type, "Already exists (user chose to skip)"))
                            /\ idx' = idx + 1
                            /\ UNCHANGED <<pc, mutations>>
                       [] action \notin {"abort", "skip"} /\ type \in existingMetaobjects
                          /\ (skipAll \/ action = "skip_all") ->
                            /\ results' = Append(results,
                                   legacySkippedResult(type, "Already exists (skip all)"))
                            /\ idx' = idx + 1
                            /\ UNCHANGED <<pc, mutations>>
                       [] OTHER ->
                            \E response \in Responses :
                              /\ mutations' = Append(mutations, type)
                              /\ results' = Append(results, legacyImportResult(type, "metaobject", response))
                              /\ idx' = idx + 1
                              /\ UNCHANGED pc
    /\ UNCHANGED <<manifest, options, target, sorted, contexts, decisions, applyToAll, summary,
                   outcome, exitCode, existingMetaobjects>>

\* the loop over import_order.metaobjects ends
LegacyMetaobjectsDone ==
    /\ pc = "legacy metaobjects"
    /\ idx > Len(manifest.import_order.metaobjects)
    /\ pc' = "legacy metafields"
    /\ idx' = 1
    /\ UNCHANGED <<manifest, options, target, sorted, contexts, decisions, applyToAll, prompted,
                   results, mutations, summary, outcome, exitCode, legacyVars>>

\* performImport, one iteration of the loop over import_order.metafields
LegacyImportMetafield ==
    /\ pc = "legacy metafields"
    /\ idx <= Len(manifest.import_order.metafields)
    /\ LET id == manifest.import_order.metafields[idx] IN
       IF id \notin LoadedMetafields(manifest)
       THEN UNCHANGED <<results, mutations>>
       ELSE \E response \in Responses :
              /\ mutations' = Append(mutations, id)
              /\ results' = Append(results, legacyImportResult(id, "metafield", response))
    /\ idx' = idx + 1
    /\ UNCHANGED <<manifest, options, target, pc, sorted, contexts, decisions, applyToAll, prompted,
                   summary, outcome, exitCode, legacyVars>>

\* performImport returns the summary and runImport shows it
LegacyShowSummary ==
    /\ pc = "legacy metafields"
    /\ idx > Len(manifest.import_order.metafields)
    /\ summary' = [total |-> Len(results),
                   successful |-> CountStatus(results, "success"),
                   failed |-> CountStatus(results, "failed"),
                   skipped |-> CountStatus(results, "skipped"),
                   shown |-> TRUE]
    /\ pc' = "done"
    /\ outcome' = "completed"
    /\ UNCHANGED <<manifest, options, target, sorted, contexts, idx, decisions, applyToAll, prompted,
                   results, mutations, exitCode, legacyVars>>

LegacyOptionSets == {[NoOptions EXCEPT !.dryRun = dry] : dry \in BOOLEAN}

InitLegacy ==
    /\ manifest \in ImportManifests
    /\ options \in LegacyOptionSets
    /\ pc = "legacy validate"
    /\ ImportIdle
    /\ FetchIdle
    /\ SortIdle

NextLegacy ==
    \/ (LegacyValidate /\ UNCHANGED <<sortVars, fetchVars>>)
    \/ (LegacyCheckExisting /\ UNCHANGED <<sortVars, fetchVars>>)
    \/ (LegacyImportMetaobject /\ UNCHANGED <<sortVars, fetchVars>>)
    \/ (LegacyMetaobjectsDone /\ UNCHANGED <<sortVars, fetchVars>>)
    \/ (LegacyImportMetafield /\ UNCHANGED <<sortVars, fetchVars>>)
    \/ (LegacyShowSummary /\ UNCHANGED <<sortVars, fetchVars>>)

SpecLegacy == InitLegacy /\ [][NextLegacy]_vars

----------------------------------------------------------------------------
(* detectConflict called on every pair of a source definition and what the *)
(* target holds                                                            *)

\* the definition files the calls are drawn over
ConflictInputs ==
    {DefinitionData(DriverEntries[k], name) : k \in DOMAIN DriverEntries, name \in {"source copy", "edited at target"}}

InitConflict ==
    /\ manifest = [metaobjects |-> <<>>, metafields |-> <<>>,
                   dependency_graph |-> [keys |-> <<>>, deps |-> <<>>],
                   import_order |-> [metaobjects |-> <<>>, metafields |-> <<>>]]
    /\ options = NoOptions
    /\ pc = "conflict"
    /\ ImportIdle
    /\ FetchIdle
    /\ graph = [keys |-> <<>>, deps |-> <<>>]
    /\ call = "none"
    /\ args \in ConflictInputs \X (ConflictInputs \cup {Null})
    /\ ret = [hasConflict |-> FALSE, checksumMatch |-> FALSE]

CallDetectConflict ==
    /\ call = "none"
    /\ pc = "conflict"
    /\ call' = "detectConflict"
    /\ ret' = detectConflict(args[1], args[2])
    /\ UNCHANGED <<graph, args>>
    /\ UNCHANGED <<importVars, legacyVars, fetchVars>>

NextConflict == CallDetectConflict

SpecConflict == InitConflict /\ [][NextConflict]_vars

----------------------------------------------------------------------------
(* The selector called on every manifest: selectDefinitions with a --type   *)
(* list, resolveDependencies and getDependenciesOnly with every selection   *)

\* the manifest updateManifest writes for the entry arrays mos and mfs with
\* dependency lists d (import_order as in ManifestOf)
ManifestOfEntries(mos, mfs, d) ==
    LET order == buildImportOrder(DefinitionMap(mos, d), DefinitionMap(mfs, d)) IN
    [metaobjects |-> mos,
     metafields |-> mfs,
     dependency_graph |-> buildDependencyGraph(DefinitionMap(mos, d), DefinitionMap(mfs, d)),
     import_order |-> IF order.error = NoError
                      THEN [metaobjects |-> order.metaobjects, metafields |-> order.metafields]
                      ELSE [metaobjects |-> [k \in DOMAIN mos |-> getDefinitionId(mos[k])],
                            metafields |-> [k \in DOMAIN mfs |-> getDefinitionId(mfs[k])]]]

\* the manifests of the three entries in both orders of the metaobjects array;
\* a dependency on author is one on a definition the manifest does not hold
SelectManifests ==
    {ManifestOfEntries(mos, <<KeyFeatures>>, d) :
        mos \in {<<Typeface, ProductCard>>, <<ProductCard, Typeface>>},
        d \in [ManifestIds -> DistinctSeqs(ManifestIds \cup {getDefinitionId(Author)}, MaxManifestDeps)]}

\* what an operator can write after --type: identities and type names
TypeArguments ==
    ManifestIds \cup {getDefinitionTypeName(ManifestEntries[k]) : k \in DOMAIN ManifestEntries}

\* the --type lists the calls are drawn over
TypeLists == DistinctSeqs(TypeArguments, MaxTypes) \ {<<>>}

\* the selections handed to resolveDependencies: entries in manifest order
SelectionsOf(m) ==
    {SelectSeq(allDefinitions(m), LAMBDA e : getDefinitionId(e) \in K) : K \in SUBSET ManifestIds}

InitSelect ==
    /\ manifest \in SelectManifests
    /\ options = NoOptions
    /\ pc = "selector"
    /\ ImportIdle
    /\ FetchIdle
    /\ graph = manifest.dependency_graph
    /\ call = "none"
    /\ args = <<>>
    /\ ret = <<>>

CallSelectDefinitions ==
    /\ call = "none"
    /\ pc = "selector"
    /\ \E types \in TypeLists :
          /\ args' = types
          /\ ret' = selectDefinitions(manifest, [options EXCEPT !.type = types]).selected
    /\ call' = "selectDefinitions"
    /\ UNCHANGED graph
    /\ UNCHANGED <<importVars, legacyVars, fetchVars>>

CallResolveDependencies ==
    /\ call = "none"
    /\ pc = "selector"
    /\ \E selected \in SelectionsOf(manifest) :
          /\ args' = selected
          /\ ret' = resolveDependencies(selected, manifest)
    /\ call' = "resolveDependencies"
    /\ UNCHANGED graph
    /\ UNCHANGED <<importVars, legacyVars, fetchVars>>

\* resolveDependencies called on the array a first call returned; args keeps
\* the first call's selection and its result
CallResolveDependenciesAgain ==
    /\ call = "resolveDependencies"
    /\ pc = "selector"
    /\ args' = <<args, ret>>
    /\ ret' = resolveDependencies(ret, manifest)
    /\ call' = "resolveDependencies again"
    /\ UNCHANGED graph
    /\ UNCHANGED <<importVars, legacyVars, fetchVars>>

CallGetDependenciesOnly ==
    /\ call = "none"
    /\ pc = "selector"
    /\ \E selected \in SelectionsOf(manifest) :
          /\ args' = selected
          /\ ret' = getDependenciesOnly(selected, manifest)
    /\ call' = "getDependenciesOnly"
    /\ UNCHANGED graph
    /\ UNCHANGED <<importVars, legacyVars, fetchVars>>

NextSelect ==
    \/ CallSelectDefinitions
    \/ CallResolveDependencies
    \/ CallResolveDependenciesAgain
    \/ CallGetDependenciesOnly

SpecSelect == InitSelect /\ [][NextSelect]_vars

----------------------------------------------------------------------------
(* runImport step 3 (import.ts lines 121-128) on every manifest with the   *)
(* --all flag and exclusion lists                                          *)

\* selection.selected as the dependency handling of runImport receives it:
\* the filtered definitions, or with --all and none left the whole manifest
selectedForDependencies(m, o) ==
    LET selection == selectDefinitions(m, o).selected
    IN  IF o.all /\ Len(selection) = 0 THEN allDefinitions(m) ELSE selection

\* --exclude-type lists: none, one type name, the two other type names
ExcludeTypeLists ==
    {<<>>, <<getDefinitionTypeName(Typeface)>>,
     <<getDefinitionTypeName(ProductCard), getDefinitionTypeName(KeyFeatures)>>}

\* --exclude-category lists: none or one of the categories of the manifest
ExcludeCategoryLists == {<<>>, <<"typography">>, <<"products">>}

ExcludeOptionSets ==
    {[NoOptions EXCEPT !.all = a, !.excludeType = t, !.excludeCategory = c] :
        a \in BOOLEAN, t \in ExcludeTypeLists, c \in ExcludeCategoryLists}

InitExclude ==
    /\ manifest \in SelectManifests
    /\ options \in ExcludeOptionSets
    /\ pc = "select"
    /\ ImportIdle
    /\ FetchIdle
    /\ graph = manifest.dependency_graph
    /\ call = "none"
    /\ args = <<>>
    /\ ret = <<>>

CallSelectForImport ==
    /\ call = "none"
    /\ pc = "select"
    /\ call' = "selectDefinitions"
    /\ ret' = selectedForDependencies(manifest, options)
    /\ UNCHANGED <<graph, args>>
    /\ UNCHANGED <<importVars, legacyVars, fetchVars>>

NextExclude == CallSelectForImport

SpecExclude == InitExclude /\ [][NextExclude]_vars

----------------------------------------------------------------------------
(* reviewDefinition with the answer compare: detectConflict, then          *)
(* showComparison prints formatDiff(compareDefinitions(...))               *)

\* most fields of a definition file compared
MaxFields == 2

TitleField(type) == [key |-> "title", value |-> <<"name", "Title", "type", type>>]

SizeField == [key |-> "size", value |-> <<"name", "Size", "type", "number_integer">>]

\* the [fields] tables of a definition file: at most MaxFields fields with
\* different keys, in every order
FieldTables ==
    {s \in UNION {[1..n -> {TitleField("single_line_text_field"), TitleField("multi_line_text_field"), SizeField}] :
                     n \in 0..MaxFields} :
        \A j, k \in DOMAIN s : j # k => s[j].key # s[k].key}

\* the files a metaobject definition can be: its name, its fields, and with or
\* without a [dependencies] table
MetaobjectFiles(entry) ==
    {[definition |-> [type |-> entry.type, name |-> name], fields |-> f] :
        name \in {"source copy", "edited at target"}, f \in FieldTables}
    \cup {[definition |-> [type |-> entry.type, name |-> name], fields |-> f,
           dependencies |-> DependenciesTable(<<getDefinitionId(Author)>>)] :
             name \in {"source copy", "edited at target"}, f \in FieldTables}

\* the files a metafield definition can be
MetafieldFiles(entry) ==
    {DefinitionData(entry, name) : name \in {"source copy", "edited at target"}}
    \cup {[definition |-> DefinitionData(entry, name).definition,
           dependencies |-> DependenciesTable(<<getDefinitionId(Author)>>)] :
             name \in {"source copy", "edited at target"}}

\* source and existing are files of the same definition
CompareInputs ==
    (MetaobjectFiles(Typeface) \X MetaobjectFiles(Typeface))
    \cup (MetafieldFiles(KeyFeatures) \X MetafieldFiles(KeyFeatures))

InitCompare ==
    /\ args \in CompareInputs
    /\ call = "none"
    /\ ret = <<>>
    /\ graph = [keys |-> <<>>, deps |-> <<>>]
    /\ manifest = [metaobjects |-> <<>>, metafields |-> <<>>,
                   dependency_graph |-> [keys |-> <<>>, deps |-> <<>>],
                   import_order |-> [metaobjects |-> <<>>, metafields |-> <<>>]]
    /\ options = NoOptions
    /\ pc = "compare"
    /\ ImportIdle
    /\ FetchIdle

\* reviewDefinition up to the comparison it shows
ShowComparison ==
    /\ call = "none"
    /\ pc = "compare"
    /\ call' = "showComparison"
    /\ ret' = [conflict |-> detectConflict(args[1], args[2]),
               diff |-> compareDefinitions(args[1], args[2]),
               shown |-> formatDiff(compareDefinitions(args[1], args[2]))]
    /\ UNCHANGED <<graph, args>>
    /\ UNCHANGED <<importVars, legacyVars, fetchVars>>

NextCompare == ShowComparison

SpecCompare == InitCompare /\ [][NextCompare]_vars

----------------------------------------------------------------------------
(* resolveSource (source-resolver): a source token resolved against the    *)
(* files below the working directory; a path is the list of its segments  *)

\* process.cwd()
Cwd == <<"/", "work">>

\* path.isAbsolute
isAbsolute(p) == p # <<>> /\ Head(p) = "/"

\* path.resolve(cwd, source) for a relative source, path.join(a, b)
pathJoin(a, b) == a \o b

\* p is f or one of the directories above f
IsPathPrefix(p, f) == Len(p) <= Len(f) /\ SubSeq(f, 1, Len(p)) = p

\* fs.existsSync(p), files being the files and the empty directories there are
existsSync(files, p) == \E f \in files : IsPathPrefix(p, f)

\* config-manager: getExportPath and exportExists
getExportPath(name) == pathJoin(pathJoin(Cwd, <<".metabridge", "exports">>), name)

exportExists(files, name) == existsSync(files, getExportPath(name))

\* validateSource: the source directory holds a manifest at its root
validateSource(files, sourcePath) == existsSync(files, pathJoin(sourcePath, <<"manifest.toml">>))

\* the path a source token that is no export name stands for
resolvedPath(source) == IF isAbsolute(source) THEN source ELSE pathJoin(Cwd, source)

\* where fetchRepository leaves the configured repository
RepositoryCachePath == pathJoin(Cwd, <<".metabridge", "cache", "library">>)

\* resolveSource; repository is what fetchConfiguredRepository comes to: no
\* repository configured, the fetch failed, or the repository is in the cache
resolveSource(source, files, repository) ==
    IF source \in {<<"repo">>, <<"repository">>}
    THEN IF repository = "fetched"
         THEN [type |-> "REPOSITORY", path |-> RepositoryCachePath, error |-> "none"]
         ELSE [type |-> "none", path |-> <<>>,
               error |-> IF repository = "unconfigured" THEN "No repository configured"
                         ELSE "Failed to clone repository"]
    ELSE IF exportExists(files, source)
    THEN [type |-> "LOCAL_EXPORT", path |-> getExportPath(source), error |-> "none"]
    ELSE IF existsSync(files, resolvedPath(source))
    THEN [type |-> "FILESYSTEM_PATH", path |-> resolvedPath(source), error |-> "none"]
    ELSE [type |-> "none", path |-> <<>>, error |-> "Source not found"]

\* the tokens given as --from
SourceTokens == {<<"repo">>, <<"repository">>, <<"library">>, <<"/", "srv", "library">>}

\* what may be on disk: a directory and its manifest below the working
\* directory, outside of it, and among the local exports
FileEntries ==
    {pathJoin(Cwd, <<"library">>), pathJoin(Cwd, <<"library", "manifest.toml">>),
     <<"/", "srv", "library">>, <<"/", "srv", "library", "manifest.toml">>,
     getExportPath(<<"library">>), pathJoin(getExportPath(<<"library">>), <<"manifest.toml">>)}

InitSource ==
    /\ manifest = [metaobjects |-> <<>>, metafields |-> <<>>,
                   dependency_graph |-> [keys |-> <<>>, deps |-> <<>>],
                   import_order |-> [metaobjects |-> <<>>, metafields |-> <<>>]]
    /\ options = NoOptions
    /\ pc = "source"
    /\ ImportIdle
    /\ FetchIdle
    /\ graph = [keys |-> <<>>, deps |-> <<>>]
    /\ call = "none"
    /\ args \in [source : SourceTokens, files : SUBSET FileEntries,
                 repository : {"unconfigured", "fetch failed", "fetched"}]
    /\ ret = [type |-> "none", path |-> <<>>, error |-> "none"]

CallResolveSource ==
    /\ call = "none"
    /\ pc = "source"
    /\ call' = "resolveSource"
    /\ ret' = resolveSource(args.source, args.files, args.repository)
    /\ UNCHANGED <<graph, args>>
    /\ UNCHANGED <<importVars, legacyVars, fetchVars>>

NextSource == CallResolveSource

SpecSource == InitSource /\ [][NextSource]_vars

----------------------------------------------------------------------------
(* validateDependencyGraph and findMissingDependencies called on every     *)
(* graph, with the sets of available definitions a manifest can come with *)

\* a dependency on a standard definition, as standard_metaobjects lists it
StandardDependency == <<"product_review">>

\* the graphs of the sorter, and each of them with the standard dependency
\* added at the end of one edge list
ValidateGraphs ==
    Graphs \cup
    UNION {{[g EXCEPT !.deps[id] = Append(@, StandardDependency)] : id \in Range(g.keys)} : g \in Graphs}

\* the loaded definitions: those of the graph, with or without the standard
\* one among them, or none
AvailableSets(g) == {Range(g.keys), Range(g.keys) \cup {StandardDependency}, {}}

InitValidate ==
    /\ graph \in ValidateGraphs
    /\ call = "none"
    /\ args \in AvailableSets(graph)
    /\ ret = <<>>
    /\ manifest = [metaobjects |-> <<>>, metafields |-> <<>>,
                   dependency_graph |-> [keys |-> <<>>, deps |-> <<>>],
                   import_order |-> [metaobjects |-> <<>>, metafields |-> <<>>]]
    /\ options = NoOptions
    /\ pc = "validate"
    /\ ImportIdle
    /\ FetchIdle

CallValidateDependencyGraph ==
    /\ call = "none"
    /\ pc = "validate"
    /\ call' = "validateDependencyGraph"
    /\ ret' = validateDependencyGraph(graph, args)
    /\ UNCHANGED <<graph, args>>
    /\ UNCHANGED <<importVars, legacyVars, fetchVars>>

CallFindMissingDependencies ==
    /\ call = "none"
    /\ pc = "validate"
    /\ call' = "findMissingDependencies"
    /\ ret' = findMissingDependencies(graph, args)
    /\ UNCHANGED <<graph, args>>
    /\ UNCHANGED <<importVars, legacyVars, fetchVars>>

NextValidate == CallValidateDependencyGraph \/ CallFindMissingDependencies

SpecValidate == InitValidate /\ [][NextValidate]_vars

----------------------------------------------------------------------------
(* buildDependencyGraph called on the definitions loaded from a manifest,  *)
(* each Map given as the sequence of its set() calls                       *)

\* most entries of one kind in a manifest the graph is built from
MaxWrites == 2

\* a metaobject whose type reads like the identity of the metafield KeyFeatures
DottedType == MetaobjectEntry(<<"product", "custom", "key_features">>, "products")

\* the set() calls loadDefinitions can make for the entries E, one for each
\* entry and each [dependencies] table its definition file can hold
WritesOf(E) ==
    {[key |-> getDefinitionId(e), dependencies |-> DependenciesTable(d)] :
        e \in E, d \in DistinctSeqs({getDefinitionId(Author), getDefinitionId(Typeface)}, MaxManifestDeps)}

\* sequences over S, at most n long
SeqsUpTo(S, n) == UNION {[1..m -> S] : m \in 0..n}

InitBuild ==
    /\ args \in SeqsUpTo(WritesOf({Typeface, DottedType}), MaxWrites)
                  \X SeqsUpTo(WritesOf({KeyFeatures}), MaxWrites)
    /\ call = "none"
    /\ ret = <<>>
    /\ graph = [keys |-> <<>>, deps |-> <<>>]
    /\ manifest = [metaobjects |-> <<>>, metafields |-> <<>>,
                   dependency_graph |-> [keys |-> <<>>, deps |-> <<>>],
                   import_order |-> [metaobjects |-> <<>>, metafields |-> <<>>]]
    /\ options = NoOptions
    /\ pc = "build"
    /\ ImportIdle
    /\ FetchIdle

\* buildDependencyGraph has no throw statement: it returns the graph
CallBuildDependencyGraph ==
    /\ call = "none"
    /\ pc = "build"
    /\ call' = "buildDependencyGraph"
    /\ ret' = [graph |-> buildDependencyGraph(args[1], args[2]), error |-> NoError]
    /\ UNCHANGED <<graph, args>>
    /\ UNCHANGED <<importVars, legacyVars, fetchVars>>

NextBuild == CallBuildDependencyGraph

SpecBuild == InitBuild /\ [][NextBuild]_vars

----------------------------------------------------------------------------
(* sanitizeRepoName and getRepoCachePath (remote-fetcher.ts): a URL is the *)
(* list of its parts between slashes, each part the list of its characters *)

\* longest repository name of the URLs drawn, before a .git suffix
MaxName == 2

\* the characters [a-zA-Z0-9-] keeps, as far as the URLs drawn use them
KeptCharacters ==
    {"a", "b", "c", "g", "h", "i", "l", "m", "o", "p", "s", "t", "u", "-"}

DotGit == <<".", "g", "i", "t">>

\* match[1] of /([^\/]+\/[^\/]+?)(\.git)?$/: the last two parts of the URL,
\* both non-empty, without a .git at the end of the last one; <<>> for no match
repoNameMatch(url) ==
    IF Len(url) < 2 \/ url[Len(url)] = <<>> \/ url[Len(url) - 1] = <<>> THEN <<>>
    ELSE LET last == url[Len(url)]
             name == IF Len(last) > 4 /\ SubSeq(last, Len(last) - 3, Len(last)) = DotGit
                     THEN SubSeq(last, 1, Len(last) - 4) ELSE last
         IN  url[Len(url) - 1] \o <<"/">> \o name

\* the directory name of a URL; the md5 digest of the fallback stands for the
\* URL it was computed from
sanitizeRepoName(url) ==
    IF repoNameMatch(url) # <<>>
    THEN [k \in DOMAIN repoNameMatch(url) |->
            IF repoNameMatch(url)[k] \in KeptCharacters THEN repoNameMatch(url)[k] ELSE "-"]
    ELSE <<"md5", url>>

getRepoCachePath(url) == pathJoin(pathJoin(Cwd, <<".metabridge", "cache">>), <<sanitizeRepoName(url)>>)

\* https://github.com/... and https://gitlab.com/...
RepositoryHosts ==
    {<<(<<"h", "t", "t", "p", "s", ":">>), (<<>>), (<<"g", "i", "t", "h", "u", "b", ".", "c", "o", "m">>)>>,
     <<(<<"h", "t", "t", "p", "s", ":">>), (<<>>), (<<"g", "i", "t", "l", "a", "b", ".", "c", "o", "m">>)>>}

\* repository names over a letter, the dot and the hyphen
RepositoryNames == UNION {[1..n -> {"a", ".", "-"}] : n \in 1..MaxName}

\* the URLs of the owner a: every host and name, with and without .git and a
\* slash at the end
RepositoryUrls ==
    {host \o <<(<<"a">>), name \o suffix>> \o slash :
        host \in RepositoryHosts, name \in RepositoryNames,
        suffix \in {<<>>, DotGit}, slash \in {<<>>, <<(<<>>)>>}}

InitCachePath ==
    /\ args \in RepositoryUrls \X RepositoryUrls
    /\ call = "none"
    /\ ret = <<>>
    /\ graph = [keys |-> <<>>, deps |-> <<>>]
    /\ manifest = [metaobjects |-> <<>>, metafields |-> <<>>,
                   dependency_graph |-> [keys |-> <<>>, deps |-> <<>>],
                   import_order |-> [metaobjects |-> <<>>, metafields |-> <<>>]]
    /\ options = NoOptions
    /\ pc = "cache path"
    /\ ImportIdle
    /\ FetchIdle

\* the cache paths of two repositories
CallGetRepoCachePath ==
    /\ call = "none"
    /\ pc = "cache path"
    /\ call' = "getRepoCachePath"
    /\ ret' = <<getRepoCachePath(args[1]), getRepoCachePath(args[2])>>
    /\ UNCHANGED <<graph, args>>
    /\ UNCHANGED <<importVars, legacyVars, fetchVars>>

NextCachePath == CallGetRepoCachePath

SpecCachePath == InitCachePath /\ [][NextCachePath]_vars

----------------------------------------------------------------------------
(* Claims about the sorter *)

\* the identities of the definitions handed to sortByDependencyOrder
ArgIds == {getDefinitionId(args[k]) : k \in DOMAIN args}

\* every edge u -> v of the graph between members of S has v before u in order
DependenciesFirst(g, S, order) ==
    \A e \in EdgesWithin(g, S) :
        e[1] # e[2] => /\ IndexOf(order, e[1]) > 0
                       /\ IndexOf(order, e[2]) > 0
                       /\ IndexOf(order, e[2]) < IndexOf(order, e[1])

\* C1: on an acyclic graph the order returned by topologicalSort, and by
\* sortByDependencyOrder for any selected subset, has every dependency that
\* is in the sorted set before its dependent; edges to identities outside
\* the set impose nothing.
C1_DependenciesBeforeDependents ==
    ~HasCycle(graph) =>
        /\ call = "topologicalSort" =>
              /\ ret.error = NoError
              /\ Range(ret.sorted) = Range(graph.keys)
              /\ DependenciesFirst(graph, Range(graph.keys), ret.sorted)
        /\ call = "sortByDependencyOrder" =>
              /\ Range(ret.sorted) = ArgIds
              /\ DependenciesFirst(graph, ArgIds, ret.sorted)

\* an acyclic graph with a two-edge chain and an edge to an absent identity has been sorted
C1_Witness ==
    /\ call \in {"topologicalSort", "sortByDependencyOrder"}
    /\ ~HasCycle(graph)
    /\ Len(ret.sorted) = 2
    /\ \E u, v \in Range(ret.sorted) : u # v /\ v \in Range(graph.deps[u])
    /\ \E u \in Range(ret.sorted) : \E x \in Range(graph.deps[u]) : x \notin Range(ret.sorted)

\* C2: on every graph with a cycle topologicalSort fails and the reported
\* path returns to its starting identity (its last identity equals its first).
C2_CyclePathReturnsToStart ==
    (call = "topologicalSort" /\ HasCycle(graph)) =>
        /\ ret.error # NoError
        /\ Last(ret.error) = Head(ret.error)

\* C3: sortByDependencyOrder surfaces a cycle error whenever the edges
\* between the selected identities contain a cycle, and returns no order.
C3_SubsetCycleSurfaced ==
    (call = "sortByDependencyOrder" /\ HasCycleWithin(graph, ArgIds)) =>
        /\ ret.error # NoError
        /\ ret.sorted = <<>>

----------------------------------------------------------------------------
(* Claims about the resolution drivers and the import run *)

ConflictOf(context) == detectConflict(context.sourceData, context.existingData)

\* the identities of selection.selected handed to sortByDependencyOrder
WorkingIds == {getDefinitionId(workingSet(manifest, options)[k]) : k \in DOMAIN workingSet(manifest, options)}

\* C4: a run over a manifest whose selected definitions contain a dependency
\* cycle fails before any definition is applied: no create mutation is sent
\* and no order is made out of the cycle.
C4_CycleIsFatalForTheRun ==
    HasCycleWithin(manifest.dependency_graph, WorkingIds) => mutations = <<>>

\* the identities the manifest-order run loads and walks
LegacyImportSet == LoadedMetaobjects(manifest) \cup LoadedMetafields(manifest)

\* C5: in a run over an acyclic manifest a definition is applied only after
\* every dependency of it that is part of the import set has been processed,
\* also when the dependency is a metafield and the dependent a metaobject
\* (runs the operator aborts are left aside).
C5_DependenciesImportedFirst ==
    (~HasCycle(manifest.dependency_graph) /\ "abort" \notin Range(prompted)) =>
        \A r \in DOMAIN results :
            results[r].status # "skipped" =>
                \A dep \in Range(DepsOf(manifest.dependency_graph, results[r].definition)) :
                    (dep # results[r].definition /\ dep \in LegacyImportSet) =>
                        \E q \in 1..(r - 1) : results[q].definition = dep

\* C6: a definition whose target-side counterpart is identical (checksum
\* match) is never shown to the operator, no apply is attempted for it, and
\* the finished run records it as skipped.
C6_IdenticalIsAutomaticSkip ==
    \A k \in DOMAIN contexts :
        ConflictOf(contexts[k]).checksumMatch =>
            /\ ContextId(contexts[k]) \notin DOMAIN prompted
            /\ ContextId(contexts[k]) \notin Range(mutations)
            /\ outcome = "completed" =>
                  \E r \in DOMAIN results : /\ results[r].definition = ContextId(contexts[k])
                                            /\ results[r].status = "skipped"

\* C7: in the decision map a driver returns, a definition without target
\* counterpart is import or skip, a conflicting one overwrite or skip.
C7_DecisionFitsConflictClass ==
    pc = "import" =>
        \A k \in DOMAIN contexts :
            /\ contexts[k].existingData = Null =>
                  DecisionOf(decisions, ContextId(contexts[k])) \in {"import", "skip"}
            /\ ConflictOf(contexts[k]).hasConflict =>
                  DecisionOf(decisions, ContextId(contexts[k])) \in {"overwrite", "skip"}

\* position k of the sorted order has been passed by the review loop
Reviewed(k) == pc # "review" \/ k < idx

Decided(k) ==
    \/ pc = "automatic" /\ k < idx
    \/ pc = "import"
    \/ pc = "done" /\ outcome = "completed"
    \/ pc = "done" /\ outcome = "failed" /\ k < idx

\* C9: in non-interactive mode every conflicting definition is decided
\* overwrite under overwrite and skip under skip, under abort the run raises
\* at the first conflicting definition, and a definition without target
\* counterpart is decided import under every strategy.
C9_StrategyAppliedUniformly ==
    ~shouldBeInteractive(options) =>
        /\ \A k \in DOMAIN contexts :
              Decided(k) =>
                 /\ (ConflictOf(contexts[k]).hasConflict /\ options.onConflict = "overwrite") =>
                        DecisionOf(decisions, ContextId(contexts[k])) = "overwrite"
                 /\ (ConflictOf(contexts[k]).hasConflict /\ options.onConflict = "skip") =>
                        DecisionOf(decisions, ContextId(contexts[k])) = "skip"
                 /\ options.onConflict = "abort" => ~ConflictOf(contexts[k]).hasConflict
                 /\ contexts[k].existingData = Null =>
                        DecisionOf(decisions, ContextId(contexts[k])) = "import"
        /\ outcome = "failed" =>
              /\ options.onConflict = "abort"
              /\ ConflictOf(contexts[idx]).hasConflict

\* an automatic run under overwrite decided a conflicting and a new definition
C9_Witness ==
    /\ pc = "import"
    /\ ~shouldBeInteractive(options)
    /\ options.onConflict = "overwrite"
    /\ \E k, j \in DOMAIN contexts :
          /\ ConflictOf(contexts[k]).hasConflict
          /\ DecisionOf(decisions, ContextId(contexts[k])) = "overwrite"
          /\ contexts[j].existingData = Null
          /\ DecisionOf(decisions, ContextId(contexts[j])) = "import"

\* the first conflicting position of the contexts, 0 when there is none
FirstConflict ==
    IF \E k \in DOMAIN contexts : ConflictOf(contexts[k]).hasConflict
    THEN CHOOSE k \in DOMAIN contexts :
             /\ ConflictOf(contexts[k]).hasConflict
             /\ \A j \in 1..(k - 1) : ~ConflictOf(contexts[j]).hasConflict
    ELSE 0

AbortRun == ~shouldBeInteractive(options) /\ options.onConflict = "abort" /\ FirstConflict > 0

\* C10: a non-interactive run with policy abort over a set with a conflicting
\* definition ends with an error; no definition at or after the conflicting
\* one is ever decided, nothing is applied, and the decisions recorded before
\* the conflict stay as they were recorded.
C10_AbortStopsAtFirstConflict ==
    /\ [](AbortRun =>
            /\ DOMAIN decisions \subseteq {ContextId(contexts[j]) : j \in 1..(FirstConflict - 1)}
            /\ mutations = <<>>
            /\ results = <<>>
            /\ pc = "done" =>
                  /\ outcome = "failed"
                  /\ exitCode = 1
                  /\ decisions = [id \in {ContextId(contexts[j]) : j \in 1..(FirstConflict - 1)} |-> "import"])
    /\ [][AbortRun /\ pc = "done" => UNCHANGED <<decisions, results, summary>>]_vars
    /\ (AbortRun ~> (pc = "done" /\ outcome = "failed"))

\* an abort run failed at a conflicting third definition after two decisions
C10_Witness ==
    /\ AbortRun
    /\ FirstConflict = 3
    /\ pc = "done"
    /\ outcome = "failed"
    /\ Cardinality(DOMAIN decisions) = 2

\* the operator has chosen abort: quit in the review, [X] in the conflict prompt
OperatorAborted == "quit" \in Range(prompted) \/ "abort" \in Range(prompted)

\* C11: after the operator chooses abort no definition is applied to the
\* target any more, neither a metaobject nor a metafield: the mutations sent
\* stay the ones sent before the choice.
C11_AbortAppliesNothingAfterwards ==
    [][OperatorAborted => mutations' = mutations]_vars

\* C12: an aborted run ends with a non-zero exit code, whether the operator
\* quit the review or the abort policy met a conflict; a run that completes,
\* with skipped or failed items or without, ends with exit code zero.
C12_AbortedRunExitsNonZero ==
    pc = "done" =>
        /\ outcome \in {"aborted by user", "failed"} => exitCode # 0
        /\ outcome = "completed" => exitCode = 0

\* C13: performImport records exactly one result per context, in order,
\* whatever the outcome of each apply: skipped for a skip decision, failed
\* with an error string for user errors or a thrown request, success
\* otherwise; the summary counts add up to the number of contexts.
C13_OneResultPerContext ==
    /\ pc = "import" =>
          /\ Len(results) = idx - 1
          /\ \A k \in DOMAIN results :
                /\ results[k].definition = ContextId(contexts[k])
                /\ results[k].status \in {"success", "failed", "skipped"}
                /\ (results[k].status = "skipped")
                      <=> (DecisionOf(decisions, ContextId(contexts[k])) = "skip")
                /\ results[k].status = "failed" => results[k].detail # ""
    /\ outcome = "completed" =>
          /\ Len(results) = Len(contexts)
          /\ summary.total = Len(contexts)
          /\ summary.total = summary.successful + summary.failed + summary.skipped

\* a completed run over three contexts with a success, a failure and a skip
C13_Witness ==
    /\ outcome = "completed"
    /\ Len(contexts) = 3
    /\ summary.successful = 1
    /\ summary.failed = 1
    /\ summary.skipped = 1
    /\ results[1].status = "failed"

\* what the target holds for the definition of a context, Null when nothing
TargetOf(context) ==
    IF ContextId(context) \in DOMAIN target THEN target[ContextId(context)] ELSE Null

\* C14: a definition that exists at the target with content different from
\* the source copy is classified as a conflict by the run (hasConflict), never
\* as identical and never as new.
C14_DifferentContentIsConflict ==
    \A k \in DOMAIN contexts :
        (TargetOf(contexts[k]) # Null /\ TargetOf(contexts[k]) # contexts[k].sourceData) =>
            /\ ConflictOf(contexts[k]).hasConflict
            /\ ~ConflictOf(contexts[k]).checksumMatch
            /\ contexts[k].existingData # Null

\* C15: detectConflict answers (no conflict, no match) when the target holds
\* nothing, (no conflict, match) when the two serialized contents are equal,
\* (conflict, no match) when they differ; never conflict and match together.
C15_DetectConflictCases ==
    call = "detectConflict" =>
        /\ args[2] = Null => (~ret.hasConflict /\ ~ret.checksumMatch)
        /\ (args[2] # Null /\ JSONstringify(args[1]) = JSONstringify(args[2])) =>
              (~ret.hasConflict /\ ret.checksumMatch)
        /\ (args[2] # Null /\ JSONstringify(args[1]) # JSONstringify(args[2])) =>
              (ret.hasConflict /\ ~ret.checksumMatch)
        /\ ~(ret.hasConflict /\ ret.checksumMatch)

\* detectConflict has answered for two equal contents
C15_Witness ==
    /\ call = "detectConflict"
    /\ args[2] # Null
    /\ args[1] = args[2]
    /\ ret.checksumMatch

\* the identities of a sequence of manifest entries
IdsOf(entries) == {getDefinitionId(entries[k]) : k \in DOMAIN entries}

\* C16: selection by a --type list returns exactly the manifest entries whose
\* identity (resource.namespace.key for a metafield) is in the list, each
\* once, whatever the order of the entries in the manifest.
C16_TypeListSelectsByIdentity ==
    call = "selectDefinitions" =>
        /\ IdsOf(ret) = IdsOf(allDefinitions(manifest)) \cap Range(args)
        /\ Len(ret) = Cardinality(IdsOf(ret))

\* C16 (amended): selection by a --type list returns exactly the manifest
\* entries whose type name (the type of a metaobject entry, namespace.key of a
\* metafield entry) is in the list, each once, whatever the order of the
\* entries in the manifest.
C16_TypeListSelectsByTypeName ==
    call = "selectDefinitions" =>
        /\ Range(ret) = {e \in Range(allDefinitions(manifest)) : getDefinitionTypeName(e) \in Range(args)}
        /\ Len(ret) = Cardinality(Range(ret))

\* a list naming a metaobject type and a metafield's namespace.key selected both
C16_Witness ==
    /\ call = "selectDefinitions"
    /\ Len(args) = 2
    /\ KeyFeatures \in Range(ret)
    /\ ProductCard \in Range(ret)
    /\ manifest.metaobjects = <<ProductCard, Typeface>>

\* the identities of universe reachable from have along the edges of g
RECURSIVE ForwardClosure(_, _, _)
ForwardClosure(g, have, universe) ==
    LET more == {v \in universe \ have : \E u \in have : v \in Range(DepsOf(g, u))}
    IN  IF more = {} THEN have ELSE ForwardClosure(g, have \cup more, universe)

\* C17: resolveDependencies returns exactly the selection plus every manifest
\* definition reachable from it along dependency_graph edges, each once, on
\* every graph, cyclic ones included; getDependenciesOnly returns that set
\* without the selection.
C17_ClosureIsReachableSet ==
    /\ call = "resolveDependencies" =>
          /\ IdsOf(ret) = ForwardClosure(manifest.dependency_graph, IdsOf(args), IdsOf(allDefinitions(manifest)))
          /\ Len(ret) = Cardinality(IdsOf(ret))
    /\ call = "getDependenciesOnly" =>
          /\ IdsOf(ret) = ForwardClosure(manifest.dependency_graph, IdsOf(args), IdsOf(allDefinitions(manifest)))
                              \ IdsOf(args)
          /\ Len(ret) = Cardinality(IdsOf(ret))

\* dependencies-only of one definition at the end of a two-edge chain through
\* the metafield returned the two others
C17_Witness ==
    /\ call = "getDependenciesOnly"
    /\ args = <<ProductCard>>
    /\ IdsOf(ret) = {getDefinitionId(KeyFeatures), getDefinitionId(Typeface)}
    /\ getDefinitionId(Typeface) \notin Range(manifest.dependency_graph.deps[getDefinitionId(ProductCard)])

\* C18: resolveDependencies applied to its own result returns the same set
\* of definitions.
C18_ClosureIsIdempotent ==
    call = "resolveDependencies again" => IdsOf(ret) = IdsOf(args[2])

\* a second call on a result that the first call had grown from one to three definitions
C18_Witness ==
    /\ call = "resolveDependencies again"
    /\ Len(args[1]) = 1
    /\ Len(args[2]) = 3
    /\ Len(ret) = 3

\* selection.selected after the --all handling, before the dependency handling
BaseSelection ==
    IF options.all /\ Len(selectDefinitions(manifest, options).selected) = 0
    THEN allDefinitions(manifest)
    ELSE selectDefinitions(manifest, options).selected

\* C19: with none of --with-dependencies, --dependencies-only and
\* --no-dependencies given, the set handed to the sort is the forward closure
\* of the selection.
C19_DefaultIncludesDependencies ==
    (pc # "select" /\ ~options.withDependencies /\ ~options.dependenciesOnly
     /\ options.noDependencies = "undefined") =>
        IdsOf(sorted) = ForwardClosure(manifest.dependency_graph, IdsOf(BaseSelection),
                                       IdsOf(allDefinitions(manifest)))

\* the first operation a call attempted, "none" when it attempted nothing
FirstOperation == IF gitOps = <<>> THEN "none" ELSE Head(gitOps)

\* C20: fetchRepository follows the cache policy on every cache state: no
\* cache -> a clone; cache with age <= ttl and no force -> the cached path
\* with no file-system or git operation; cache with age > ttl -> an update in
\* place (fetch first); force -> the update whatever the age.
C20_CachePolicy ==
    fetchPc = "done" =>
        /\ ~fetchCall.cache.cached => FirstOperation = "clone"
        /\ (fetchCall.cache.cached /\ ~fetchCall.force /\ fetchCall.cache.age <= fetchCall.ttl) =>
              /\ gitOps = <<>>
              /\ fetchResult = "cachePath"
              /\ cache = fetchCall.cache
        /\ (fetchCall.cache.cached /\ isCacheStale(fetchCall.cache, fetchCall.ttl)) =>
              /\ fetchCall.cache.age > fetchCall.ttl
              /\ FirstOperation = "fetch"
              /\ (gitOps = UpdateCommands <=> "clone" \notin Range(gitOps))
        /\ (fetchCall.cache.cached /\ fetchCall.force) => FirstOperation = "fetch"

\* a forced call on a fresh cache has updated it in place
C20_Witness ==
    /\ fetchPc = "done"
    /\ fetchCall.force
    /\ fetchCall.cache.cached
    /\ fetchCall.cache.age <= fetchCall.ttl
    /\ gitOps = UpdateCommands
    /\ fetchResult = "cachePath"

\* how often operation op was attempted
OperationCount(op) == Cardinality({k \in DOMAIN gitOps : gitOps[k] = op})

\* an update in place was started and one of its commands threw
UpdateFailed == "fetch" \in Range(gitOps) /\ (fetchPc = "done" => gitOps # UpdateCommands)

\* C21: a failed update in place is followed by one full re-clone; when the
\* re-clone fails too the error reaches the caller, and nothing is attempted
\* a second time.
C21_UpdateFallsBackToOneClone ==
    /\ OperationCount("clone") <= 1
    /\ OperationCount("fetch") <= 1
    /\ (fetchPc = "done" /\ UpdateFailed) =>
          /\ OperationCount("clone") = 1
          /\ Last(gitOps) = "clone"
          /\ fetchResult \in {"cachePath", "Failed to clone repository"}
          /\ fetchResult = "Failed to clone repository" <=> cache = NoCache

\* the update failed at fetch, the re-clone failed too and the error was thrown
C21_Witness ==
    /\ fetchPc = "done"
    /\ gitOps = <<"fetch", "rm", "clone">>
    /\ fetchResult = "Failed to clone repository"

----------------------------------------------------------------------------
(* Claims about the source resolver *)

\* resolveSource was called with a token that is neither the repository token
\* nor the name of a local export
PathTokenResolved ==
    /\ call = "resolveSource"
    /\ args.source \notin {<<"repo">>, <<"repository">>}
    /\ ~exportExists(args.files, args.source)

\* C22: a source token that is neither the repository token nor a local export
\* name resolves as a filesystem path only if the path exists and holds a
\* manifest at its root; otherwise resolveSource fails with source-not-found
C22_PathNeedsManifest ==
    PathTokenResolved =>
        IF /\ existsSync(args.files, resolvedPath(args.source))
           /\ validateSource(args.files, resolvedPath(args.source))
        THEN ret.type = "FILESYSTEM_PATH" /\ ret.path = resolvedPath(args.source)
        ELSE ret.type = "none" /\ ret.error = "Source not found"

----------------------------------------------------------------------------
(* Claims about graph validation *)

\* some definition of the graph depends on a custom definition that is not
\* available
HasMissingDependency ==
    \E d \in Range(graph.keys) : \E x \in Range(graph.deps[d]) :
        x \notin args /\ x # StandardDependency

HasSelfLoop == \E d \in Range(graph.keys) : d \in Range(graph.deps[d])

\* C23: validateDependencyGraph returns (it never throws); valid is false
\* exactly when the graph has a cycle, a self-loop included, and the cycle is
\* reported as an error; missing dependencies only produce warnings
C23_ValidExactlyWhenAcyclic ==
    call = "validateDependencyGraph" =>
        /\ DOMAIN ret = {"valid", "errors", "warnings"}
        /\ ret.valid = ~HasCycle(graph)
        /\ HasCycle(graph) => Len(ret.errors) = 1 /\ Head(ret.errors) # NoError
        /\ HasSelfLoop => ~ret.valid
        /\ ~HasCycle(graph) => ret.errors = <<>>
        /\ HasMissingDependency <=> ret.warnings # <<>>

\* a graph with a self-loop and a missing dependency was validated: it came
\* back invalid with the one error of the cycle, the missing dependency a warning
C23_Witness ==
    /\ call = "validateDependencyGraph"
    /\ HasSelfLoop
    /\ HasMissingDependency
    /\ ~ret.valid
    /\ Len(ret.errors) = 1
    /\ ret.warnings # <<>>

\* C24: every edge to an identity that is not available is reported: for every
\* definition d and every dependency x of d outside the available set,
\* findMissingDependencies lists x under d
C24_EveryAbsentDependencyListed ==
    call = "findMissingDependencies" =>
        \A d \in Range(graph.keys) : \A x \in Range(graph.deps[d]) :
            x \notin args => d \in DOMAIN ret /\ x \in Range(ret[d])

----------------------------------------------------------------------------
(* Claims about building the dependency graph *)

\* the entries the graph was built from, metaobjects first
BuildEntries == args[1] \o args[2]

\* two of the entries have the same identity
HasDuplicateIdentity ==
    \E j, k \in DOMAIN BuildEntries : j # k /\ BuildEntries[j].key = BuildEntries[k].key

\* C25: building the dependency graph fails with an error when two entries
\* have the same identity (a metaobject type equal to a metafield identity
\* included); no entry's edge list is replaced by that of another entry
C25_DuplicateIdentityFailsBuild ==
    call = "buildDependencyGraph" =>
        IF HasDuplicateIdentity
        THEN ret.error # NoError
        ELSE /\ ret.error = NoError
             /\ \A k \in DOMAIN BuildEntries :
                    ret.graph.deps[BuildEntries[k].key] = getAllDependencies(BuildEntries[k].dependencies)

----------------------------------------------------------------------------
(* Claims about dry runs and the review loop *)

\* C26: with --dry-run no create mutation is sent and no decision prompt is
\* shown, whatever the manifest, the selection and the target hold
C26_DryRunSendsNothing ==
    options.dryRun =>
        /\ mutations = <<>>
        /\ prompted = <<>>
        /\ decisions = <<>>
        /\ results = <<>>

\* a dry run over loaded definitions, one of them present at the target, ended
C26_Witness ==
    /\ options.dryRun
    /\ pc = "done"
    /\ outcome = "dry run"
    /\ \E k \in DOMAIN contexts : contexts[k].existingData # Null

\* reviewAllDefinitions has returned its decision map to runImport
ReviewReturned ==
    /\ shouldBeInteractive(options)
    /\ pc = "import" \/ (pc = "done" /\ outcome = "completed")

\* C27: whenever reviewAllDefinitions returns normally the decision map holds
\* an entry for the identity of every context, and every action in it is
\* import, skip or overwrite: the menu answers compare, apply-all, skip-all
\* and quit are never stored
C27_ReviewDecidesEveryContext ==
    shouldBeInteractive(options) =>
        /\ \A id \in DOMAIN decisions : decisions[id] \in {"import", "skip", "overwrite"}
        /\ ReviewReturned =>
              DOMAIN decisions = {ContextId(contexts[k]) : k \in DOMAIN contexts}

\* the review returned after compare, then apply-all on a conflicting first
\* definition of three
C27_Witness ==
    /\ ReviewReturned
    /\ pc = "import"
    /\ idx = 1
    /\ Len(contexts) = 3
    /\ DecisionOf(prompted, ContextId(contexts[1])) = "apply-all"
    /\ \A k \in 1..3 : DecisionOf(decisions, ContextId(contexts[k])) = "overwrite"

----------------------------------------------------------------------------
(* Claims about the cache path *)

\* C28: two different repository URLs never map to the same cache path
C28_CachePathsDistinct ==
    (call = "getRepoCachePath" /\ args[1] # args[2]) => ret[1] # ret[2]

----------------------------------------------------------------------------
(* Claims about exclusions *)

\* C29: exclusions hold together with --all: a definition whose type name is
\* in --exclude-type or whose category is in --exclude-category is never in
\* the selection runImport hands to dependency handling, also when the
\* filters leave the selection empty
C29_ExcludedNeverSelected ==
    (call = "selectDefinitions" /\ pc = "select") =>
        \A k \in DOMAIN ret :
            /\ getDefinitionTypeName(ret[k]) \notin Range(options.excludeType)
            /\ ret[k].category \notin Range(options.excludeCategory)

----------------------------------------------------------------------------
(* Claims about the comparison *)

\* C30: conflict detection and the field diff agree: for every pair of
\* definitions detectConflict reports as a conflict, compareDefinitions
\* reports an added, removed or modified item, and the compare view does not
\* show 'No differences found'
C30_ConflictHasDifference ==
    (call = "showComparison" /\ ret.conflict.hasConflict) =>
        /\ ret.diff.added # <<>> \/ ret.diff.removed # <<>> \/ ret.diff.modified # <<>>
        /\ ret.shown # <<"No differences found">>

\* the loops of a run are synchronous code between awaits that resolve: a run
\* that can take a step takes one
SpecDriverFair == SpecDriver /\ WF_vars(NextDriver)

====
